---- MODULE Spec2Model ----
(***************************************************************************)
(* Model of the Smart Device Mobile API service: the SecurityKey parsers   *)
(* (mobile_api/src/security.rs), the DeviceState busy flag, BusyGuard and  *)
(* configuration snapshot (mobile_api_server/src/state.rs), the ApiKey     *)
(* request guard (mobile_api_server/src/api_common.rs) and the endpoint    *)
(* handlers (src/bin/mobile_api_server/api_v1/{device,commands}.rs).       *)
(*                                                                         *)
(* A Rust &str is modelled as the sequence of its UTF-8 bytes, a           *)
(* SecurityKey as the sequence of its 32 bytes, a &'static str reason as a *)
(* TLA+ string, a DeviceConfig value by a small identifier.                *)
(***************************************************************************)
EXTENDS Integers, Sequences, FiniteSets, TLC

\* ------------------------------------------------------------------ bounds
\* Number of concurrently running threads (Rocket workers / API callers).
NumThreads == 2
\* Number of distinct DeviceConfig values a client may send.
NumConfigs == 2

\* ------------------------------------------------------- program constants
\* KeyBytes = [u8; 32]
KeyLen == 32
\* from_hex / from_string: the hex form is exactly 64 bytes long
HexLen == 64

Threads == 1..NumThreads
Configs == 1..NumConfigs
\* Option<DeviceConfig>::None
None == 0
ConfigOpt == {None} \cup Configs

\* const WRONG_LENGTH_ERROR
WRONG_LENGTH_ERROR == "key data length is incorrect"
\* the message of from_string's own error
NOT_SUITABLE_ERROR == "the key provided was not a suitable hex or base64 string"
\* core::num::ParseIntError (IntErrorKind::InvalidDigit) as displayed
INVALID_DIGIT_ERROR == "invalid digit found in string"
\* base64::DecodeError of any kind
BASE64_DECODE_ERROR == "base64 decode error"

\* ------------------------------------------------------------ results
Ok(k) == [tag |-> "Ok", key |-> k, msg |-> ""]
Err(m) == [tag |-> "Err", key |-> <<>>, msg |-> m]
\* the call does not return: the thread unwinds with a panic
Panic == [tag |-> "Panic", key |-> <<>>, msg |-> ""]

\* ------------------------------------------------------------ SecurityKey
\* SecurityKey::from_bytes: wraps the 32 bytes
from_bytes(bytes) == bytes

\* value of an ASCII hex digit (char::to_digit(16)), -1 when it is none
HexDigit(c) ==
    IF c >= 48 /\ c <= 57 THEN c - 48
    ELSE IF c >= 97 /\ c <= 102 THEN c - 87
    ELSE IF c >= 65 /\ c <= 70 THEN c - 55
    ELSE -1

\* str::is_char_boundary(idx) on the UTF-8 bytes s (idx is 0-based):
\* the start, the end, or a byte that is not a continuation byte 10xxxxxx
is_char_boundary(s, idx) ==
    \/ idx = 0
    \/ idx = Len(s)
    \/ /\ idx < Len(s)
       /\ ~(s[idx + 1] >= 128 /\ s[idx + 1] < 192)

\* u8::from_str_radix(src, 16) for the two-byte slice <<a, b>>: a leading '+'
\* is a sign and is skipped, every remaining byte must be a hex digit.
\* The result is the byte value, or -1 for Err(ParseIntError).
u8_from_str_radix(a, b) ==
    IF a = 43
    THEN HexDigit(b)
    ELSE IF HexDigit(a) >= 0 /\ HexDigit(b) >= 0
         THEN 16 * HexDigit(a) + HexDigit(b)
         ELSE -1

\* The loop of from_hex from byte offset i on, bytes holding the pairs
\* decoded so far: &hex[i..i + 2] panics off a char boundary, `?` returns the
\* first parse error.
RECURSIVE from_hex_loop(_, _, _)
from_hex_loop(hex, i, bytes) ==
    IF i >= HexLen THEN Ok(from_bytes(bytes))
    ELSE IF ~(is_char_boundary(hex, i) /\ is_char_boundary(hex, i + 2))
         THEN Panic
    ELSE IF u8_from_str_radix(hex[i + 1], hex[i + 2]) < 0
         THEN Err(INVALID_DIGIT_ERROR)
    ELSE from_hex_loop(hex, i + 2,
                       Append(bytes, u8_from_str_radix(hex[i + 1], hex[i + 2])))

\* SecurityKey::from_hex
from_hex(hex) ==
    IF Len(hex) # HexLen
    THEN Err(WRONG_LENGTH_ERROR)
    ELSE from_hex_loop(hex, 0, <<>>)

\* value of a symbol of the standard base64 alphabet, -1 when it is none
Base64Value(c) ==
    IF c >= 65 /\ c <= 90 THEN c - 65
    ELSE IF c >= 97 /\ c <= 122 THEN c - 71
    ELSE IF c >= 48 /\ c <= 57 THEN c + 4
    ELSE IF c = 43 THEN 62
    ELSE IF c = 47 THEN 63
    ELSE -1

\* number of leading bytes of s that are not '='
RECURSIVE SymbolCount(_, _)
SymbolCount(s, n) ==
    IF n < Len(s) /\ s[n + 1] # 61 THEN SymbolCount(s, n + 1) ELSE n

\* output byte j (0-based) of the 6-bit symbols s[1..n]
Base64Byte(s, j) ==
    LET q == (8 * j) \div 6
        r == (8 * j) % 6
        v0 == Base64Value(s[q + 1])
        v1 == Base64Value(s[q + 2])
    IN  IF r = 0 THEN v0 * 4 + (v1 \div 16)
        ELSE IF r = 2 THEN (v0 % 16) * 16 + (v1 \div 4)
        ELSE (v0 % 4) * 64 + v1

\* faulty variant of base64::decode: the padding may be left out, so that a
\* value of 32 bytes is also accepted in its 43-character form
base64_decode_optional_padding(s) ==
    LET n == SymbolCount(s, 0)
        pads == Len(s) - n
        bad == \/ Len(s) % 4 = 1
               \/ \E i \in 1..n : Base64Value(s[i]) < 0
               \/ \E i \in (n + 1)..Len(s) : s[i] # 61
               \/ pads > 0 /\ n % 4 < 2
               \/ pads > 0 /\ (n % 4) + pads > 4
               \/ n % 4 = 2 /\ Base64Value(s[n]) % 16 # 0
               \/ n % 4 = 3 /\ Base64Value(s[n]) % 4 # 0
    IN  IF bad THEN <<-1>>
        ELSE [j \in 1..((n * 6) \div 8) |-> Base64Byte(s, j - 1)]

\* base64::decode(s) with the STANDARD engine: the bytes on success, <<-1>>
\* for Err(DecodeError).  Symbols must come from the alphabet, the padding
\* must be canonical (the input is a whole number of quads, '=' only ends the
\* input, in the last two places of the last quad), and the last symbol may
\* not carry trailing bits.
base64_decode(s) ==
    LET n == SymbolCount(s, 0)
        pads == Len(s) - n
        bad == \/ Len(s) % 4 # 0
               \/ \E i \in 1..n : Base64Value(s[i]) < 0
               \/ \E i \in (n + 1)..Len(s) : s[i] # 61
               \/ pads > 0 /\ n % 4 < 2
               \/ pads > 0 /\ (n % 4) + pads > 4
               \/ n % 4 = 2 /\ Base64Value(s[n]) % 16 # 0
               \/ n % 4 = 3 /\ Base64Value(s[n]) % 4 # 0
    IN  IF bad THEN <<-1>>
        ELSE [j \in 1..((n * 6) \div 8) |-> Base64Byte(s, j - 1)]

\* SecurityKey::from_base64
from_base64(string) ==
    LET decoded == base64_decode(string)
    IN  IF decoded = <<-1>> THEN Err(BASE64_DECODE_ERROR)
        ELSE IF Len(decoded) = KeyLen THEN Ok(decoded)
        ELSE Err(WRONG_LENGTH_ERROR)

\* SecurityKey::from_string
from_string(string) ==
    LET hexres == IF Len(string) = HexLen THEN from_hex(string) ELSE Err("")
        b64res == from_base64(string)
    IN  IF hexres.tag = "Panic" THEN Panic
        ELSE IF hexres.tag = "Ok" THEN hexres
        ELSE IF b64res.tag = "Ok" THEN b64res
        ELSE Err(NOT_SUITABLE_ERROR)

\* mapper tables of SecurityKey::hex
UPPER == <<48, 49, 50, 51, 52, 53, 54, 55, 56, 57, 65, 66, 67, 68, 69, 70>>
LOWER == <<48, 49, 50, 51, 52, 53, 54, 55, 56, 57, 97, 98, 99, 100, 101, 102>>

\* faulty variant of hex: the low half-byte is pushed first
hex_low_first(key, upper) ==
    LET mapper == IF upper THEN UPPER ELSE LOWER
    IN  [i \in 1..(2 * Len(key)) |->
            IF i % 2 = 1
            THEN mapper[(key[(i + 1) \div 2] % 16) + 1]
            ELSE mapper[(key[i \div 2] \div 16) + 1]]

\* SecurityKey::hex(upper)
hex(key, upper) ==
    LET mapper == IF upper THEN UPPER ELSE LOWER
    IN  [i \in 1..(2 * Len(key)) |->
            IF i % 2 = 1
            THEN mapper[(key[(i + 1) \div 2] \div 16) + 1]
            ELSE mapper[(key[i \div 2] % 16) + 1]]

\* de_error: the message given to serde's Error::custom
DE_ERROR_PREFIX == "SecurityKey parsing failed: "
de_error(e) == Err(DE_ERROR_PREFIX \o e)

\* what the visitors expect, reported when the input has another type
EXPECTING_STR == "64 hex characters"
EXPECTING_BYTES == "32 bytes"

\* the data a serializer is given or a deserializer hands to the visitor:
\* a string, a byte slice, or a value of another type
SerStr(v) == [type |-> "str", v |-> v]
SerBytes(v) == [type |-> "bytes", v |-> v]
SerOther == [type |-> "bool", v |-> <<>>]

\* impl Serialize for SecurityKey
serialize(key, human_readable) ==
    IF human_readable THEN SerStr(hex(key, FALSE)) ELSE SerBytes(key)

\* SecurityKeyVisitor::visit_str
visit_str(v) ==
    LET r == from_hex(v)
    IN  IF r.tag = "Err" THEN de_error(r.msg) ELSE r

\* SecurityKeyBytesVisitor::visit_bytes
visit_bytes(v) ==
    IF Len(v) = KeyLen THEN Ok(from_bytes(v)) ELSE de_error(WRONG_LENGTH_ERROR)

\* impl Deserialize for SecurityKey
deserialize(data, human_readable) ==
    IF human_readable
    THEN IF data.type = "str" THEN visit_str(data.v) ELSE Err(EXPECTING_STR)
    ELSE IF data.type = "bytes" THEN visit_bytes(data.v) ELSE Err(EXPECTING_BYTES)

\* ------------------------------------------------------------------ SRNG
\* A u128 is kept as its eight 16-bit groups, the most significant first
\* (TLC's integers are narrower than 128 bits).
U128Groups == 8
GroupSize == 65536

RECURSIVE BitAnd(_, _)
BitAnd(a, b) ==
    IF a = 0 \/ b = 0 THEN 0
    ELSE 2 * BitAnd(a \div 2, b \div 2) + (IF a % 2 = 1 /\ b % 2 = 1 THEN 1 ELSE 0)

RECURSIVE BitOr(_, _)
BitOr(a, b) ==
    IF a = 0 THEN b
    ELSE IF b = 0 THEN a
    ELSE 2 * BitOr(a \div 2, b \div 2) + (IF a % 2 = 1 \/ b % 2 = 1 THEN 1 ELSE 0)

\* x & y and x | y on u128
u128_and(x, y) == [i \in 1..U128Groups |-> BitAnd(x[i], y[i])]
u128_or(x, y) == [i \in 1..U128Groups |-> BitOr(x[i], y[i])]

\* faulty variant of u128_shl80: shifts by 64 bits only
u128_shl64(x) == [i \in 1..U128Groups |-> IF i <= 4 THEN x[i + 4] ELSE 0]

\* x << 80 on u128: the bits shifted out at the top are lost
u128_shl80(x) == [i \in 1..U128Groups |-> IF i <= 3 THEN x[i + 5] ELSE 0]

\* x >> 80 on u128
u128_shr80(x) == [i \in 1..U128Groups |-> IF i <= 5 THEN 0 ELSE x[i - 5]]

\* u128::from_be_bytes
u128_from_be_bytes(bytes) ==
    [i \in 1..U128Groups |-> 256 * bytes[2 * i - 1] + bytes[2 * i]]

\* faulty variant of UUID_CLEAR_MASK: 0xFFFFFFFF_FFFF_00FF_3FFF_FFFFFFFFFFFF
UUID_CLEAR_MASK_wide == <<65535, 65535, 65535, 255, 16383, 65535, 65535, 65535>>

\* 0xFFFFFFFF_FFFF_0FFF_3FFF_FFFFFFFFFFFF
UUID_CLEAR_MASK == <<65535, 65535, 65535, 4095, 16383, 65535, 65535, 65535>>
\* 0x00000000_0000_7000_8000_000000000000
UUID_SET_BITS == <<0, 0, 0, 28672, 32768, 0, 0, 0>>

\* a reading of the system clock: before the Unix epoch (duration_since
\* fails), or ms milliseconds after it
BeforeEpoch == [before_epoch |-> TRUE, ms |-> <<>>]
At(ms) == [before_epoch |-> FALSE, ms |-> ms]
\* an answer of ring's SystemRandom::fill: failure, or the bytes written
RngFails == [ok |-> FALSE, bytes |-> <<>>]
Random(bytes) == [ok |-> TRUE, bytes |-> bytes]
\* std::time::SystemTimeError and ring::error::Unspecified as displayed
TIME_ERROR == "second time provided was later than self"
RNG_ERROR == "ring::error::Unspecified"

\* the result of a function that gives a byte buffer back
Filled(buf) == [tag |-> "Ok", buf |-> buf, msg |-> ""]
FillFailed(m) == [tag |-> "Err", buf |-> <<>>, msg |-> m]

\* get_unix_time_ms with the clock reading now: the milliseconds as u128
get_unix_time_ms(now) ==
    IF now.before_epoch THEN Err(TIME_ERROR) ELSE Ok(now.ms)

\* faulty variant of fill: a failure of the random source is swallowed and
\* the buffer is left as it was, all zero
fill_swallows(len, rng) ==
    IF len = 0 THEN Filled(<<>>)
    ELSE IF ~rng.ok THEN Filled([i \in 1..len |-> 0])
    ELSE Filled(SubSeq(rng.bytes, 1, len))

\* SRNG::fill on a zeroed buffer of len bytes, when the random source
\* answers rng: RngFails, or the bytes it writes.  For an empty buffer the
\* source is not asked and the call returns Ok
fill(len, rng) ==
    IF len = 0 THEN Filled(<<>>)
    ELSE IF ~rng.ok THEN FillFailed(RNG_ERROR)
    ELSE Filled(SubSeq(rng.bytes, 1, len))

\* SRNG::generate_key
generate_key(rng) ==
    LET key == fill(KeyLen, rng)
    IN  IF key.tag = "Err" THEN Err(key.msg) ELSE Ok(from_bytes(key.buf))

\* bytes in a UUID, and bytes of it that are filled with random
UuidLen == 16
RandLen == 10

\* the value generate_uuid computes from the time and the random bytes
uuid_bits(ms, rand) ==
    LET shifted == u128_shl80(ms)
        bytes == [i \in 1..UuidLen |-> IF i <= UuidLen - RandLen THEN 0
                                       ELSE rand[i - (UuidLen - RandLen)]]
        randomized == u128_or(shifted, u128_from_be_bytes(bytes))
    IN  u128_or(u128_and(randomized, UUID_CLEAR_MASK), UUID_SET_BITS)

\* faulty variant of generate_uuid: the random bytes are requested before
\* the clock is read
generate_uuid_fill_first(now, rng) ==
    LET time == get_unix_time_ms(now)
        rand == fill(RandLen, rng)
    IN  IF rand.tag = "Err" THEN [res |-> Err(rand.msg), requested |-> RandLen]
        ELSE IF time.tag = "Err" THEN [res |-> time, requested |-> RandLen]
        ELSE [res |-> Ok(uuid_bits(time.key, rand.buf)), requested |-> RandLen]

\* SRNG::generate_uuid when the clock reads now and the random source
\* answers rng: the result, and the number of random bytes requested
generate_uuid(now, rng) ==
    LET time == get_unix_time_ms(now)
        rand == fill(RandLen, rng)
    IN  IF time.tag = "Err" THEN [res |-> time, requested |-> 0]
        ELSE IF rand.tag = "Err" THEN [res |-> Err(rand.msg), requested |-> RandLen]
        ELSE [res |-> Ok(uuid_bits(time.key, rand.buf)), requested |-> RandLen]

\* SifisHome::new_info when the random source answers rng_key and rng_uuid
\* and the clock reads now
new_info(rng_key, now, rng_uuid) ==
    LET key == generate_key(rng_key)
        uuid == generate_uuid(now, rng_uuid)
    IN  IF key.tag = "Err" THEN [res |-> key, requested |-> KeyLen]
        ELSE IF uuid.res.tag = "Err"
        THEN [res |-> uuid.res, requested |-> KeyLen + uuid.requested]
        ELSE [res |-> Ok([authorization_key |-> key.key, uuid |-> uuid.res.key]),
              requested |-> KeyLen + uuid.requested]

\* ------------------------------------------------------------ test data
\* TEST_AUTH_KEY of the server tests
TEST_AUTH_KEY == <<82, 123, 30, 114, 234, 222, 77, 235, 45, 41, 236, 148, 177, 227, 167, 151,
                   36, 232, 77, 235, 45, 73, 234, 239, 122, 177, 39, 118, 154, 34, 158, 219>>
\* TEST_KEY of the security tests (f0e1d2c3...e1f0)
TEST_KEY == <<240, 225, 210, 195, 180, 165, 150, 135, 120, 105, 90, 75, 60, 45, 30, 15,
              15, 30, 45, 60, 75, 90, 105, 120, 135, 150, 165, 180, 195, 210, 225, 240>>
\* TEST_API_KEY = "UnsecureTestKeyUseOnlyToTestServerEndpoints=" (base64 of TEST_AUTH_KEY)
TEST_API_KEY == <<85, 110, 115, 101, 99, 117, 114, 101, 84, 101, 115, 116, 75, 101, 121, 85,
                  115, 101, 79, 110, 108, 121, 84, 111, 84, 101, 115, 116, 83, 101, 114, 118,
                  101, 114, 69, 110, 100, 112, 111, 105, 110, 116, 115, 61>>
\* TEST_KEY_BASE64 = "8OHSw7Sllod4aVpLPC0eDw8eLTxLWml4h5altMPS4fA=" (base64 of TEST_KEY)
TEST_KEY_BASE64 == <<56, 79, 72, 83, 119, 55, 83, 108, 108, 111, 100, 52, 97, 86, 112, 76,
                     80, 67, 48, 101, 68, 119, 56, 101, 76, 84, 120, 76, 87, 109, 108, 52,
                     104, 53, 97, 108, 116, 77, 80, 83, 52, 102, 65, 61>>
\* "invalid key", the malformed key of test_invalid_auth_get
INVALID_KEY_STR == <<105, 110, 118, 97, 108, 105, 100, 32, 107, 101, 121>>
\* 64 bytes of UTF-8: "5", U+00E9 (bytes 195 169), then the last 61 hex digits of
\* TEST_AUTH_KEY: offset 2 falls inside the two-byte character
NON_ASCII_KEY_STR == <<53, 195, 169>> \o SubSeq(hex(TEST_AUTH_KEY, FALSE), 4, 2 * KeyLen)

\* x-api-key header values a client sends; 0 stands for a request without the header
HeaderValues == << TEST_API_KEY,
                   hex(TEST_KEY, TRUE),
                   INVALID_KEY_STR,
                   NON_ASCII_KEY_STR >>
NoHeader == 0
Headers == {NoHeader} \cup DOMAIN HeaderValues

\* the authorization key the device is provisioned with (device.json); a
\* request carrying TEST_KEY carries a well-formed key that is not this one
ProvisionedKeys == {TEST_AUTH_KEY}

\* reasons the handlers pass to BusyGuard::try_busy
REASON_SET_CONFIG == "Saving device configuration."
REASON_FACTORY_RESET == "A factory reset is performed."
REASON_RESTART == "The device is restarting."
REASON_SHUTDOWN == "The device is shutting down."
\* reasons a direct caller of BusyGuard::try_busy passes ("Testing BusyGuard"
\* is the one of test_busy_guard; the empty string is a &'static str as well)
ApiReasons == {"", "Testing BusyGuard", REASON_RESTART}

\* the confirm query parameter of factory_reset: absent, wrong, or the message
CONFIRM_MESSAGE == "I really want to perform a factory reset"
Confirms == {"<absent>", "yes", CONFIRM_MESSAGE}

\* config.json holding something serde_json cannot turn into a DeviceConfig
Corrupt == -1

\* ------------------------------------------------------------------ state
VARIABLES
    busy_reason,        \* DeviceState.busy_reason: "" when the server is free
    device_config,      \* DeviceState.device_config: the in-memory snapshot
    write_lock,         \* the thread holding device_config's write lock, 0 if none
    config_file,        \* config.json: None (no file), a config, or Corrupt
    authorization_key,  \* DeviceState.device_info.authorization_key
    th,                 \* per thread: the call or request it is running
    out,                \* the last response sent / the last result returned
    last_set,           \* history: the argument of the last set_config that returned Ok
    pure                \* the last call of a SecurityKey function: arguments and result

\* the variables of the server
server == <<busy_reason, device_config, write_lock, config_file, authorization_key, th, out,
            last_set>>

vars == <<busy_reason, device_config, write_lock, config_file, authorization_key, th, out,
          last_set, pure>>

\* a thread that runs nothing
IdleRec == [pc |-> "idle", kind |-> "none", hdr |-> NoHeader, confirm |-> "",
            reason |-> "", guard |-> FALSE, arg |-> None, res |-> "", code |-> 0,
            desc |-> "", script |-> "", launched |-> "", data |-> ""]

\* no set_config has returned Ok since the state was constructed
NoSet == -2

\* nothing has been answered yet
NoOut == [kind |-> "none", hdr |-> NoHeader, confirm |-> "", reason |-> "", arg |-> None,
          res |-> "", code |-> 0, desc |-> "", body |-> None, launched |-> "",
          holder |-> "", seen |-> NoSet, prev |-> "", data |-> ""]

\* DeviceState::new after load_info succeeded: the flag is free, the snapshot
\* is load_config().ok()
InitServer ==
    /\ busy_reason = ""
    /\ config_file \in ConfigOpt \cup {Corrupt}
    /\ device_config = IF config_file = Corrupt THEN None ELSE config_file
    /\ write_lock = 0
    /\ authorization_key \in ProvisionedKeys
    /\ th = [p \in Threads |-> IdleRec]
    /\ out = NoOut
    /\ last_set = NoSet

Init == InitServer /\ pure = [op |-> "none"]

\* ------------------------------------------------------------ ApiKey
\* ErrorResponse::bad_request / unauthorized / service_unavailable /
\* internal_server_error / not_found: status code and description
bad_request(description) == [code |-> 400, desc |-> description]
unauthorized == [code |-> 401, desc |-> "The request requires user authentication."]
service_unavailable(description) == [code |-> 503, desc |-> description]
internal_server_error(description) == [code |-> 500, desc |-> description]
not_found(description) == [code |-> 404, desc |-> description]

\* "Missing `x-api-key` header." (a TLA+ string cannot hold the backquotes of
\* the source's message; they are written as apostrophes)
MISSING_HEADER == "Missing 'x-api-key' header."

\* SecurityKey::from_string(given_key_str) for every header value
ParsedHeaders == [h \in DOMAIN HeaderValues |-> from_string(HeaderValues[h])]

\* impl FromRequest for ApiKey: from_request on the x-api-key header h
from_request(h) ==
    IF h = NoHeader
    THEN [outcome |-> "Failure", error |-> bad_request(MISSING_HEADER)]
    ELSE LET parsed == ParsedHeaders[h]
         IN  IF parsed.tag = "Panic"
             THEN [outcome |-> "Panic", error |-> internal_server_error("panic")]
             ELSE IF parsed.tag = "Ok"
             THEN IF authorization_key = parsed.key
                  THEN [outcome |-> "Success", error |-> [code |-> 0, desc |-> ""]]
                  ELSE [outcome |-> "Failure", error |-> unauthorized]
             ELSE [outcome |-> "Failure", error |-> bad_request("Invalid API key")]

\* ------------------------------------------------------------ DeviceState
\* DeviceState::busy
busy == busy_reason

\* DeviceState::clear_busy: the value written to busy_reason
clear_busy == ""

\* faulty variants of set_busy, against which the properties below are tried:
\* one replaces the stored reason when the flag is taken, one answers with the
\* caller's reason, one never refuses
set_busy_replaces(reason) ==
    IF busy_reason = ""
    THEN [ok |-> TRUE, err |-> "", busy |-> reason]
    ELSE [ok |-> FALSE, err |-> busy_reason, busy |-> reason]

set_busy_own_reason(reason) ==
    IF busy_reason = ""
    THEN [ok |-> TRUE, err |-> "", busy |-> reason]
    ELSE [ok |-> FALSE, err |-> reason, busy |-> busy_reason]

set_busy_always(reason) == [ok |-> TRUE, err |-> "", busy |-> reason]

\* DeviceState::set_busy(reason): the result and the value busy_reason has
\* after the call (the mutex is held for the whole check-and-set)
set_busy(reason) ==
    IF busy_reason = ""
    THEN [ok |-> TRUE, err |-> "", busy |-> reason]
    ELSE [ok |-> FALSE, err |-> busy_reason, busy |-> busy_reason]

\* BusyGuard::try_busy(state, reason): Ok(BusyGuard) or Err(reason of set_busy)
try_busy(reason) == set_busy(reason)

\* DeviceState::get_config: a clone of the snapshot, taken under the read lock
DeviceState_get_config == device_config

\* the read lock can be taken while no thread holds the write lock
CanRead == write_lock = 0

\* history: the reason passed to try_busy by a thread other than p whose
\* BusyGuard is alive, "" when there is none
OtherHolder(p) ==
    IF \E q \in Threads \ {p} : th[q].guard
    THEN th[CHOOSE q \in Threads \ {p} : th[q].guard].reason
    ELSE ""

\* the response or result of thread p, whose call was r, put into `out`, with
\* what the history says at that moment: holder (for a request that passed
\* the key check), seen (for a read of the configuration) and prev (whether
\* the answer before was a guard's drop)
Answer(p, r, code, desc, body) ==
    [kind |-> r.kind, hdr |-> r.hdr, confirm |-> r.confirm, reason |-> r.reason,
     arg |-> r.arg, res |-> r.res, code |-> code, desc |-> desc, body |-> body,
     launched |-> r.launched, data |-> r.data,
     holder |-> IF from_request(r.hdr).outcome = "Success" THEN OtherHolder(p) ELSE "",
     seen |-> IF r.kind \in {"get_config", "api_get_config"} THEN last_set ELSE NoSet,
     prev |-> IF out.kind = "drop" THEN "drop" ELSE ""]

\* faulty variant: factory_reset goes on to its script when set_config(None)
\* failed
AfterSetConfig_script_on_error(r, res) ==
    IF r.kind = "set_config"
    THEN IF res = "Ok"
         THEN [r EXCEPT !.pc = "ret", !.res = res, !.code = 200,
                        !.desc = "Configuration saved."]
         ELSE [r EXCEPT !.pc = "ret", !.res = res, !.code = 500,
                        !.desc = "persistence error"]
    ELSE IF r.kind = "factory_reset"
    THEN [r EXCEPT !.pc = "script", !.res = res, !.script = "factory_reset.sh"]
    ELSE IdleRec

\* where a thread continues when its DeviceState::set_config call returns res:
\* the handler set_config answers 200 or 500, factory_reset runs the script or
\* answers 500, a direct caller has its result
AfterSetConfig(r, res) ==
    IF r.kind = "set_config"
    THEN IF res = "Ok"
         THEN [r EXCEPT !.pc = "ret", !.res = res, !.code = 200,
                        !.desc = "Configuration saved."]
         ELSE [r EXCEPT !.pc = "ret", !.res = res, !.code = 500,
                        !.desc = "persistence error"]
    ELSE IF r.kind = "factory_reset"
    THEN IF res = "Ok"
         THEN [r EXCEPT !.pc = "script", !.res = res, !.script = "factory_reset.sh"]
         ELSE [r EXCEPT !.pc = "ret", !.res = res, !.code = 500,
                        !.desc = "persistence error"]
    ELSE IdleRec

\* the result a direct caller of DeviceState::set_config gets
AfterSetConfigOut(p, r, res) ==
    IF r.kind = "api_set_config"
    THEN Answer(p, [r EXCEPT !.res = res], 0, "", None)
    ELSE out

\* faulty variant: the write lock is taken without waiting for its holder
DeviceState_set_config_lock_shared(p) ==
    /\ th[p].pc = "w_lock"
    /\ write_lock' = p
    /\ th' = [th EXCEPT ![p].pc = "w_persist"]
    /\ UNCHANGED <<busy_reason, device_config, config_file, authorization_key, out, last_set>>

\* DeviceState::set_config, `self.device_config.write()?`: waits for the lock
DeviceState_set_config_lock(p) ==
    /\ th[p].pc = "w_lock"
    /\ write_lock = 0
    /\ write_lock' = p
    /\ th' = [th EXCEPT ![p].pc = "w_persist"]
    /\ UNCHANGED <<busy_reason, device_config, config_file, authorization_key, out, last_set>>

\* what a failed SifisHome::save_config / remove_config leaves in config.json:
\* remove_file leaves the file, fs::write may have truncated or half written it
FailedPersist(arg) ==
    IF arg = None THEN {config_file} ELSE {config_file, Corrupt}

\* faulty variant: the snapshot is replaced before the persistence step
SnapshotAfterFailure_replaced(arg) == arg

\* the snapshot after the persistence step of set_config(arg) failed
SnapshotAfterFailure(arg) == device_config

\* faulty variant: when the persistence step fails the write lock is not
\* released
DeviceState_set_config_persist_keeps_lock(p) ==
    /\ th[p].pc = "w_persist"
    /\ \/ /\ config_file' = th[p].arg
          /\ th' = [th EXCEPT ![p].pc = "w_swap"]
          /\ UNCHANGED <<write_lock, device_config, out>>
       \/ /\ config_file' \in FailedPersist(th[p].arg)
          /\ device_config' = SnapshotAfterFailure(th[p].arg)
          /\ write_lock' = p
          /\ th' = [th EXCEPT ![p] = AfterSetConfig(th[p], "Err")]
          /\ out' = AfterSetConfigOut(p, th[p], "Err")
    /\ UNCHANGED <<busy_reason, authorization_key, last_set>>

\* DeviceState::set_config, the match on &config: remove_config or save_config;
\* on Err the `?` returns, dropping the write lock, the snapshot untouched
DeviceState_set_config_persist(p) ==
    /\ th[p].pc = "w_persist"
    /\ \/ /\ config_file' = th[p].arg
          /\ th' = [th EXCEPT ![p].pc = "w_swap"]
          /\ UNCHANGED <<write_lock, device_config, out>>
       \/ /\ config_file' \in FailedPersist(th[p].arg)
          /\ device_config' = SnapshotAfterFailure(th[p].arg)
          /\ write_lock' = 0
          /\ th' = [th EXCEPT ![p] = AfterSetConfig(th[p], "Err")]
          /\ out' = AfterSetConfigOut(p, th[p], "Err")
    /\ UNCHANGED <<busy_reason, authorization_key, last_set>>

\* faulty variant: the assignment is missing
SnapshotAfterSwap_missing(arg) == device_config

\* the snapshot after `*write_lock = config`
SnapshotAfterSwap(arg) == arg

\* faulty variant of the last step of set_config: removing the configuration
\* also replaces the device's authorization key
DeviceState_set_config_swap_rekeys(p) ==
    /\ th[p].pc = "w_swap"
    /\ device_config' = SnapshotAfterSwap(th[p].arg)
    /\ write_lock' = 0
    /\ th' = [th EXCEPT ![p] = AfterSetConfig(th[p], "Ok")]
    /\ out' = AfterSetConfigOut(p, th[p], "Ok")
    /\ last_set' = th[p].arg
    /\ authorization_key' = IF th[p].arg = None THEN TEST_KEY ELSE authorization_key
    /\ UNCHANGED <<busy_reason, config_file>>

\* DeviceState::set_config, `*write_lock = config; Ok(())`
DeviceState_set_config_swap(p) ==
    /\ th[p].pc = "w_swap"
    /\ device_config' = SnapshotAfterSwap(th[p].arg)
    /\ write_lock' = 0
    /\ th' = [th EXCEPT ![p] = AfterSetConfig(th[p], "Ok")]
    /\ out' = AfterSetConfigOut(p, th[p], "Ok")
    /\ last_set' = th[p].arg
    /\ UNCHANGED <<busy_reason, config_file, authorization_key>>

\* the response of a handler that returns without having taken the guard
Response(p, kind, h, resp, body) ==
    Answer(p, [IdleRec EXCEPT !.kind = kind, !.hdr = h], resp.code, resp.desc, body)

\* the handler's `Err(err) => match err { InvalidKey => BadRequest, WrongKey =>
\* Unauthorized }` arm; a panic of the guard is answered 500 by the framework
KeyRejected(p, kind, h, key) ==
    /\ key.outcome # "Success"
    /\ out' = Response(p, kind, h, key.error, None)
    /\ UNCHANGED <<busy_reason, device_config, write_lock, config_file,
                   authorization_key, th, last_set>>

\* `match BusyGuard::try_busy(state, reason)`: on Ok the guard lives until the
\* handler returns and the thread goes on at pc `next`; on Err the response is
\* 503 with the reason try_busy returned
Guarded(p, kind, h, confirm, reason, next, arg, script) ==
    LET r == try_busy(reason)
        call == [IdleRec EXCEPT !.kind = kind, !.hdr = h, !.confirm = confirm,
                                !.reason = reason, !.arg = arg]
    IN  /\ busy_reason' = r.busy
        /\ IF r.ok
           THEN /\ th' = [th EXCEPT ![p] =
                            [call EXCEPT !.pc = next, !.guard = TRUE, !.script = script]]
                /\ UNCHANGED out
           ELSE /\ out' = Answer(p, call, service_unavailable(r.err).code,
                                 service_unavailable(r.err).desc, None)
                /\ UNCHANGED th
        /\ UNCHANGED <<device_config, write_lock, config_file, authorization_key, last_set>>

\* ------------------------------------------------------------ handlers
\* Worker p takes the next request: workers are interchangeable, a request is
\* handed to the first one that runs nothing
Free(p) ==
    /\ th[p].pc = "idle"
    /\ \A q \in Threads : q < p => th[q].pc # "idle"

\* GET /device/status
status(p, h) ==
    /\ Free(p)
    /\ LET key == from_request(h)
       IN  \/ KeyRejected(p, "status", h, key)
           \/ /\ key.outcome = "Success"
              /\ out' = Response(p, "status", h, [code |-> 200, desc |-> ""], None)
              /\ UNCHANGED <<busy_reason, device_config, write_lock, config_file,
                             authorization_key, th, last_set>>

\* faulty variant of get_config: the read takes the busy flag like a command
get_config_guarded(p, h) ==
    /\ Free(p)
    /\ LET key == from_request(h)
       IN  \/ KeyRejected(p, "get_config", h, key)
           \/ /\ key.outcome = "Success"
              /\ Guarded(p, "get_config", h, "", "Reading device configuration.", "ret",
                         None, "")

\* GET /device/configuration: the key is matched, then state.get_config() is called
get_config(p, h) ==
    /\ Free(p)
    /\ LET key == from_request(h)
       IN  \/ KeyRejected(p, "get_config", h, key)
           \/ /\ key.outcome = "Success"
              /\ th' = [th EXCEPT ![p] = [IdleRec EXCEPT !.pc = "read", !.kind = "get_config",
                                                        !.hdr = h]]
              /\ UNCHANGED <<busy_reason, device_config, write_lock, config_file,
                             authorization_key, out, last_set>>

\* get_config, `match state.get_config()`: None => 404, Some(config) => 200
get_config_read(p) ==
    /\ th[p].pc = "read"
    /\ CanRead
    /\ LET config == DeviceState_get_config
       IN  out' = IF config = None
                  THEN Response(p, "get_config", th[p].hdr,
                                not_found("This device has not been configured yet."), None)
                  ELSE Response(p, "get_config", th[p].hdr, [code |-> 200, desc |-> ""],
                                config)
    /\ th' = [th EXCEPT ![p] = IdleRec]
    /\ UNCHANGED <<busy_reason, device_config, write_lock, config_file, authorization_key,
                   last_set>>

\* the bodies a client sends with PUT /device/configuration.  A body fits the
\* size limit of Json or not; it is JSON, or stops being JSON before its
\* dht_shared_key has been read, after the key and inside the object, or
\* behind the closing brace; its dht_shared_key is the string key (a hex key,
\* no hex string, or a string that makes from_hex panic); it has the field
\* name or not; and config is the DeviceConfig a sound body makes up
BodyInputs ==
    {[fits |-> f, syntax |-> s, key |-> k, name |-> n, config |-> c] :
        f \in BOOLEAN, s \in {"Json", "BeforeKey", "AfterKey", "Trailing"},
        k \in {hex(TEST_KEY, FALSE), INVALID_KEY_STR, NON_ASCII_KEY_STR},
        n \in BOOLEAN, c \in Configs}

\* impl FromData for Json<DeviceConfig>, on the body b: the DeviceConfig, or
\* the status the framework answers with when the guard fails (413 for a body
\* cut at the limit, 400 for a syntax error, 422 for JSON that is no
\* DeviceConfig) or panics (500); the handler is not called then.  The body
\* is read whole and then parsed as a stream: the key is handed to
\* Deserialize for SecurityKey as soon as its string has been read, a missing
\* field is seen at the closing brace, trailing characters after that.
Json_from_data(b) ==
    LET error(kind, code, reason) ==
            [outcome |-> kind, code |-> code, desc |-> reason, config |-> None]
        key == deserialize(SerStr(b.key), TRUE)
    IN  IF ~b.fits THEN error("TooLarge", 413, "Payload Too Large")
        ELSE IF b.syntax = "BeforeKey" THEN error("Malformed", 400, "Bad Request")
        ELSE IF key.tag = "Panic" THEN error("Panic", 500, "Internal Server Error")
        ELSE IF key.tag = "Err" THEN error("Unprocessable", 422, "Unprocessable Entity")
        ELSE IF b.syntax = "AfterKey" THEN error("Malformed", 400, "Bad Request")
        ELSE IF ~b.name THEN error("Unprocessable", 422, "Unprocessable Entity")
        ELSE IF b.syntax = "Trailing" THEN error("Malformed", 400, "Bad Request")
        ELSE [outcome |-> "Success", code |-> 0, desc |-> "", config |-> b.config]

\* what Json::from_data makes of the bodies
ParsedBodies == {Json_from_data(b) : b \in BodyInputs}

\* PUT /device/configuration: the request guards run first (a panic of the
\* key guard is answered 500), then the data guard reads the body; when it
\* fails the framework answers and the handler is not called, otherwise the
\* handler matches the key and tries the busy flag
set_config(p, h) ==
    /\ Free(p)
    /\ LET key == from_request(h)
       IN  IF key.outcome = "Panic"
           THEN KeyRejected(p, "set_config", h, key)
           ELSE \/ \E config \in ParsedBodies :
                    /\ config.outcome # "Success"
                    /\ out' = Answer(p, [IdleRec EXCEPT !.kind = "set_config", !.hdr = h,
                                                        !.data = config.outcome],
                                     config.code, config.desc, None)
                    /\ UNCHANGED <<busy_reason, device_config, write_lock, config_file,
                                   authorization_key, th, last_set>>
                \/ KeyRejected(p, "set_config", h, key)
                \/ /\ key.outcome = "Success"
                   /\ \E config \in ParsedBodies :
                        /\ config.outcome = "Success"
                        /\ Guarded(p, "set_config", h, "", REASON_SET_CONFIG, "w_lock",
                                   config.config, "")

\* the description of factory_reset's 400 response
CONFIRM_ERROR == "The required confirm parameter was not correct or set."

\* faulty variant of factory_reset: the busy flag is tried before the confirm
\* parameter is looked at
factory_reset_busy_first(p, h) ==
    /\ Free(p)
    /\ LET key == from_request(h)
       IN  \/ KeyRejected(p, "factory_reset", h, key)
           \/ /\ key.outcome = "Success"
              /\ \E confirm \in Confirms :
                    IF confirm = CONFIRM_MESSAGE \/ busy_reason # ""
                    THEN Guarded(p, "factory_reset", h, confirm, REASON_FACTORY_RESET,
                                 "w_lock", None, "")
                    ELSE /\ out' = Answer(p, [IdleRec EXCEPT !.kind = "factory_reset",
                                                             !.hdr = h, !.confirm = confirm],
                                          bad_request(CONFIRM_ERROR).code,
                                          bad_request(CONFIRM_ERROR).desc, None)
                         /\ UNCHANGED <<busy_reason, device_config, write_lock, config_file,
                                        authorization_key, th, last_set>>

\* GET /command/factory_reset?<confirm>
factory_reset(p, h) ==
    /\ Free(p)
    /\ LET key == from_request(h)
       IN  \/ KeyRejected(p, "factory_reset", h, key)
           \/ /\ key.outcome = "Success"
              /\ \E confirm \in Confirms :
                    IF confirm = CONFIRM_MESSAGE
                    THEN Guarded(p, "factory_reset", h, confirm, REASON_FACTORY_RESET,
                                 "w_lock", None, "")
                    ELSE /\ out' = Answer(p, [IdleRec EXCEPT !.kind = "factory_reset",
                                                             !.hdr = h, !.confirm = confirm],
                                          bad_request(CONFIRM_ERROR).code,
                                          bad_request(CONFIRM_ERROR).desc, None)
                         /\ UNCHANGED <<busy_reason, device_config, write_lock, config_file,
                                        authorization_key, th, last_set>>

\* GET /command/restart
restart(p, h) ==
    /\ Free(p)
    /\ LET key == from_request(h)
       IN  \/ KeyRejected(p, "restart", h, key)
           \/ /\ key.outcome = "Success"
              /\ Guarded(p, "restart", h, "", REASON_RESTART, "script", None, "restart.sh")

\* GET /command/shutdown
shutdown(p, h) ==
    /\ Free(p)
    /\ LET key == from_request(h)
       IN  \/ KeyRejected(p, "shutdown", h, key)
           \/ /\ key.outcome = "Success"
              /\ Guarded(p, "shutdown", h, "", REASON_SHUTDOWN, "script", None, "shutdown.sh")

\* the message of the 200 response of a command
OkMessage(kind) ==
    IF kind = "factory_reset" THEN "Factory reset complete."
    ELSE IF kind = "restart" THEN "System will now restart."
    ELSE "System will now power off."

\* outcomes of Command::new(script).output(): the script cannot be found or
\* started, or it ran and exited with a zero or a non-zero status
ScriptOutcomes == {"not launched", "exit 0", "exit 1"}

\* faulty variant: a non-zero exit status is reported as an error
run_script_checks_status(outcome) == IF outcome = "exit 0" THEN "Ok" ELSE "Err"

\* run_script(state, script_name): Err only when resource_path or output()
\* fails; the exit status only decides whether stdout is printed
run_script(outcome) == IF outcome = "not launched" THEN "Err" ELSE "Ok"

\* the handler's `if let Err(err) = run_script(..) { return Error(500) }` and
\* the Ok(200) response after it
run_script_step(p) ==
    /\ th[p].pc = "script"
    /\ \E outcome \in ScriptOutcomes :
          th' = [th EXCEPT ![p] =
                    IF run_script(outcome) = "Ok"
                    THEN [@ EXCEPT !.pc = "ret", !.launched = outcome, !.code = 200,
                                   !.desc = OkMessage(th[p].kind)]
                    ELSE [@ EXCEPT !.pc = "ret", !.launched = outcome, !.code = 500,
                                   !.desc = "script launch error"]]
    /\ UNCHANGED <<busy_reason, device_config, write_lock, config_file,
                   authorization_key, out, last_set>>

\* faulty variant: drop leaves the reason in place
DropGuard_keeps == busy_reason

\* the value of busy_reason once the guard of a returning handler is dropped:
\* Drop for BusyGuard calls clear_busy
DropGuard == clear_busy

\* faulty variant of handler_return: the guard is not dropped when the handler
\* returns an error
handler_return_leaks(p) ==
    /\ th[p].pc = "ret"
    /\ busy_reason' = IF th[p].code = 500 THEN busy_reason ELSE DropGuard
    /\ out' = Answer(p, th[p], th[p].code, th[p].desc, None)
    /\ th' = [th EXCEPT ![p] = IdleRec]
    /\ UNCHANGED <<device_config, write_lock, config_file, authorization_key, last_set>>

\* the handler returns: the BusyGuard held by the match goes out of scope,
\* the response goes out
handler_return(p) ==
    /\ th[p].pc = "ret"
    /\ busy_reason' = DropGuard
    /\ out' = Answer(p, th[p], th[p].code, th[p].desc, None)
    /\ th' = [th EXCEPT ![p] = IdleRec]
    /\ UNCHANGED <<device_config, write_lock, config_file, authorization_key, last_set>>

\* ------------------------------------------------- the server: requests
Next ==
    /\ UNCHANGED pure
    /\ \E p \in Threads :
        \/ \E h \in Headers : status(p, h)
        \/ \E h \in Headers : get_config(p, h)
        \/ get_config_read(p)
        \/ \E h \in Headers : set_config(p, h)
        \/ \E h \in Headers : factory_reset(p, h)
        \/ \E h \in Headers : restart(p, h)
        \/ \E h \in Headers : shutdown(p, h)
        \/ DeviceState_set_config_lock(p)
        \/ DeviceState_set_config_persist(p)
        \/ DeviceState_set_config_swap(p)
        \/ run_script_step(p)
        \/ handler_return(p)

Spec == Init /\ [][Next]_vars

\* the steps by which worker p goes on with the request it is handling
Continue(p) ==
    /\ UNCHANGED pure
    /\ \/ DeviceState_set_config_lock(p)
       \/ DeviceState_set_config_persist(p)
       \/ DeviceState_set_config_swap(p)
       \/ run_script_step(p)
       \/ handler_return(p)

\* the step in which worker p reads the configuration: it waits while another
\* worker holds the write lock
Acquire(p) ==
    /\ UNCHANGED pure
    /\ get_config_read(p)

\* the headers that carry the authorization key
AuthenticHeaders ==
    {h \in DOMAIN HeaderValues :
        ParsedHeaders[h].tag = "Ok" /\ ParsedHeaders[h].key \in ProvisionedKeys}

\* the requests that occupy a worker, and the steps that follow them (a request
\* that fails the key check, finds the device busy, asks for the status or
\* resets without the confirmation is answered in the step it arrives in and
\* leaves nothing behind to wait for)
NextLive ==
    /\ UNCHANGED pure
    /\ \E p \in Threads :
        \/ \E h \in AuthenticHeaders : get_config(p, h) /\ th'[p].pc # "idle"
        \/ get_config_read(p)
        \/ \E h \in AuthenticHeaders : set_config(p, h) /\ th'[p].pc # "idle"
        \/ \E h \in AuthenticHeaders : factory_reset(p, h) /\ th'[p].pc # "idle"
        \/ \E h \in AuthenticHeaders : restart(p, h) /\ th'[p].pc # "idle"
        \/ \E h \in AuthenticHeaders : shutdown(p, h) /\ th'[p].pc # "idle"
        \/ DeviceState_set_config_lock(p)
        \/ DeviceState_set_config_persist(p)
        \/ DeviceState_set_config_swap(p)
        \/ run_script_step(p)
        \/ handler_return(p)

\* The server when every persistence call and script terminates and the
\* workers are scheduled: a worker that can go on does so, and a reader that
\* waits for the config lock gets it when the lock stays free.  The RwLock
\* has no priority policy: a writer that comes later may take the lock ahead
\* of a reader that waits.
SpecLive ==
    /\ Init
    /\ [][NextLive]_vars
    /\ \A p \in Threads : WF_vars(Continue(p)) /\ WF_vars(Acquire(p))

\* ------------------------------------- DeviceState and BusyGuard called directly
\* BusyGuard::try_busy(&state, reason) by a thread that keeps the guard it gets
api_try_busy(p, reason) ==
    /\ th[p].pc = "idle"
    /\ LET r == try_busy(reason)
       IN  /\ busy_reason' = r.busy
           /\ th' = [th EXCEPT ![p] =
                       IF r.ok
                       THEN [IdleRec EXCEPT !.pc = "held", !.kind = "try_busy",
                                            !.reason = reason, !.guard = TRUE]
                       ELSE IdleRec]
           /\ out' = Answer(p, [IdleRec EXCEPT !.kind = "try_busy", !.reason = reason,
                                              !.res = IF r.ok THEN "Ok" ELSE "Err"],
                            0, r.err, None)
    /\ UNCHANGED <<device_config, write_lock, config_file, authorization_key, last_set>>

\* Drop for BusyGuard: the guard of thread p goes out of scope
api_drop(p) ==
    /\ th[p].pc = "held"
    /\ busy_reason' = DropGuard
    /\ th' = [th EXCEPT ![p] = IdleRec]
    /\ out' = Answer(p, [th[p] EXCEPT !.kind = "drop"], 0, "", None)
    /\ UNCHANGED <<device_config, write_lock, config_file, authorization_key, last_set>>

\* state.set_busy(reason) called directly: the flag is taken without a guard,
\* so that only clear_busy frees it again
api_set_busy(p, reason) ==
    /\ th[p].pc \in {"idle", "held"}
    /\ LET r == set_busy(reason)
       IN  /\ busy_reason' = r.busy
           /\ out' = Answer(p, [IdleRec EXCEPT !.kind = "set_busy", !.reason = reason,
                                              !.res = IF r.ok THEN "Ok" ELSE "Err"],
                            0, r.err, None)
    /\ UNCHANGED <<device_config, write_lock, config_file, authorization_key, th, last_set>>

\* state.clear_busy() called directly, whether or not a guard is alive
api_clear_busy(p) ==
    /\ th[p].pc \in {"idle", "held"}
    /\ busy_reason' = clear_busy
    /\ out' = Answer(p, [IdleRec EXCEPT !.kind = "clear_busy"], 0, "", None)
    /\ UNCHANGED <<device_config, write_lock, config_file, authorization_key, th, last_set>>

\* state.get_config() called directly
api_get_config(p) ==
    /\ th[p].pc = "idle"
    /\ CanRead
    /\ out' = Answer(p, [IdleRec EXCEPT !.kind = "api_get_config"], 0, "",
                     DeviceState_get_config)
    /\ UNCHANGED <<busy_reason, device_config, write_lock, config_file,
                   authorization_key, th, last_set>>

\* state.set_config(c) called directly, c an Option<DeviceConfig>
api_set_config(p, c) ==
    /\ th[p].pc = "idle"
    /\ th' = [th EXCEPT ![p] = [IdleRec EXCEPT !.pc = "w_lock", !.kind = "api_set_config",
                                              !.arg = c]]
    /\ UNCHANGED <<busy_reason, device_config, write_lock, config_file,
                   authorization_key, out, last_set>>

NextApi ==
    /\ UNCHANGED pure
    /\ \E p \in Threads :
        \/ \E reason \in ApiReasons : api_try_busy(p, reason)
        \/ api_drop(p)
        \/ api_get_config(p)
        \/ \E c \in ConfigOpt : api_set_config(p, c)
        \/ DeviceState_set_config_lock(p)
        \/ DeviceState_set_config_persist(p)
        \/ DeviceState_set_config_swap(p)

SpecApi == Init /\ [][NextApi]_vars

\* every public call of DeviceState and BusyGuard, set_busy and clear_busy
\* included
NextDirect ==
    /\ UNCHANGED pure
    /\ \E p \in Threads :
        \/ \E reason \in ApiReasons : api_try_busy(p, reason)
        \/ api_drop(p)
        \/ \E reason \in ApiReasons : api_set_busy(p, reason)
        \/ api_clear_busy(p)
        \/ api_get_config(p)
        \/ \E c \in ConfigOpt : api_set_config(p, c)
        \/ DeviceState_set_config_lock(p)
        \/ DeviceState_set_config_persist(p)
        \/ DeviceState_set_config_swap(p)

SpecDirect == Init /\ [][NextDirect]_vars

\* ------------------------------------------- BusyGuard with named reasons
\* the reasons of ApiReasons that name something
NamedReasons == ApiReasons \ {""}

\* the direct calls with try_busy given non-empty reasons only: set_busy and
\* clear_busy are reached through BusyGuard, among calls that read and replace
\* the configuration
NextGuard ==
    /\ UNCHANGED pure
    /\ \E p \in Threads :
        \/ \E reason \in NamedReasons : api_try_busy(p, reason)
        \/ api_drop(p)
        \/ api_get_config(p)
        \/ \E c \in ConfigOpt : api_set_config(p, c)
        \/ DeviceState_set_config_lock(p)
        \/ DeviceState_set_config_persist(p)
        \/ DeviceState_set_config_swap(p)

SpecGuard == Init /\ [][NextGuard]_vars
\* ----------------------------------- SecurityKey functions called directly
\* how far the lengths of the strings tried are from 64
LenDelta == 2

\* TEST_KEY_HEX, and the same key in upper and in mixed case
LOWER_HEX == hex(TEST_KEY, FALSE)
UPPER_HEX == hex(TEST_KEY, TRUE)
MIXED_HEX == [i \in 1..HexLen |-> IF i % 3 = 0 THEN UPPER_HEX[i] ELSE LOWER_HEX[i]]

\* bytes put in place of a hex digit: '+', '-', ' ', '=', and the characters
\* at and next to the ends of '0'..'9', 'A'..'F' and 'a'..'f'
ProbeChars == {43, 45, 32, 61, 47, 48, 57, 58, 64, 65, 70, 71, 96, 97, 102, 103}

\* strings given to from_hex and from_string: TEST_KEY_HEX with one byte
\* replaced, with two bytes replaced by U+00E9 (bytes 195 169), cut or
\* lengthened, and in the three cases
HexInputs ==
    {[LOWER_HEX EXCEPT ![i] = c] : i \in 1..HexLen, c \in ProbeChars}
    \cup {[LOWER_HEX EXCEPT ![i] = 195, ![i + 1] = 169] : i \in 1..(HexLen - 1)}
    \cup {SubSeq(LOWER_HEX, 1, n) : n \in (HexLen - LenDelta)..HexLen}
    \cup {LOWER_HEX \o SubSeq(UPPER_HEX, 1, n) : n \in 1..LenDelta}
    \cup {<<>>, UPPER_HEX, MIXED_HEX}

\* "8OHSw7Sllod4aVpLPC0eDw==": valid base64 of 16 bytes
SHORT_BASE64 == SubSeq(TEST_KEY_BASE64, 1, 22) \o <<61, 61>>

\* strings given to from_string: those given to from_hex, the base64 strings
\* of the tests, and the base64 of the test key with one character replaced,
\* cut short, or extended
StringInputs ==
    HexInputs
    \cup {TEST_KEY_BASE64, TEST_API_KEY, SHORT_BASE64, INVALID_KEY_STR}
    \cup {[TEST_KEY_BASE64 EXCEPT ![i] = c] :
            i \in 1..Len(TEST_KEY_BASE64), c \in ProbeChars}
    \cup {SubSeq(TEST_KEY_BASE64, 1, n) :
            n \in (Len(TEST_KEY_BASE64) - LenDelta - 1)..Len(TEST_KEY_BASE64)}
    \cup {TEST_KEY_BASE64 \o SubSeq(SHORT_BASE64, 1, n) : n \in 1..LenDelta}

\* the largest step between neighbouring bytes of the keys tried
KeySlopes == 1

\* keys given to hex: byte i is m * i + b, so that every byte value occurs in
\* every place
KeyInputs ==
    {[i \in 1..KeyLen |-> (m * i + b) % 256] : m \in 0..KeySlopes, b \in 0..255}

\* byte slices given to the binary deserializer: keys, keys cut short and
\* keys extended
ByteInputs ==
    {SubSeq(k, 1, n) : k \in KeyInputs, n \in (KeyLen - LenDelta)..KeyLen}
    \cup {k \o SubSeq(k, 1, n) : k \in KeyInputs, n \in 1..LenDelta}
    \cup {<<>>}

\* data given to a deserializer
SerInputs ==
    {SerStr(v) : v \in HexInputs} \cup {SerBytes(v) : v \in ByteInputs} \cup {SerOther}

\* a millisecond count as u128, from its 16-bit groups: hi is bits 48..63
Millis(hi, a, b, c) == <<0, 0, 0, 0, hi, a, b, c>>

\* the test pattern 0x0155_5555_5555 of get_unix_time_ms
MIRI_TIME == Millis(0, 341, 21845, 21845)

\* clock readings: the epoch, the test pattern, a time of the year 2024 and
\* its neighbours across a carry, the largest 48-bit time, and the first
\* that does not fit in 48 bits
ClockValues ==
    {Millis(0, 0, 0, 0), MIRI_TIME, Millis(0, 400, 65535, 65535), Millis(0, 401, 0, 0),
     Millis(0, 65535, 65535, 65535), Millis(1, 0, 0, 1)}

\* random bytes: byte i is m * i + b
RandomInputs ==
    {[i \in 1..RandLen |-> (m * i + b) % 256] : m \in 0..KeySlopes, b \in 0..255}

\* the calls tried
KeyCalls ==
    {[op |-> "call", fn |-> "from_hex", str |-> str] : str \in HexInputs}
    \cup {[op |-> "call", fn |-> "from_string", str |-> str] : str \in StringInputs}
    \cup {[op |-> "call", fn |-> "serde", key |-> key, human |-> human] :
            key \in KeyInputs, human \in BOOLEAN}
    \cup {[op |-> "call", fn |-> "deserialize", data |-> data, human |-> human] :
            data \in SerInputs, human \in BOOLEAN}
    \cup {[op |-> "call", fn |-> "generate_uuid", now |-> now, rng |-> rng] :
            now \in {At(ms) : ms \in ClockValues},
            rng \in {Random(bytes) : bytes \in RandomInputs}}
    \cup {[op |-> "call", fn |-> "hex", key |-> key, upper |-> upper] :
            key \in KeyInputs, upper \in BOOLEAN}

\* a call of SecurityKey::from_hex(str)
call_from_hex ==
    /\ pure.op = "call"
    /\ pure.fn = "from_hex"
    /\ pure' = [op |-> "done", fn |-> "from_hex", str |-> pure.str, res |-> from_hex(pure.str)]
    /\ UNCHANGED server

\* a call of SecurityKey::from_string(str)
call_from_string ==
    /\ pure.op = "call"
    /\ pure.fn = "from_string"
    /\ pure' = [op |-> "done", fn |-> "from_string", str |-> pure.str,
                res |-> from_string(pure.str)]
    /\ UNCHANGED server

\* a call of key.hex(upper) on key = SecurityKey::from_bytes(b), whose result
\* is then given to SecurityKey::from_hex, as it is and with its letters
\* turned to the other case in every third place
call_hex ==
    /\ pure.op = "call"
    /\ pure.fn = "hex"
    /\ LET str == hex(from_bytes(pure.key), pure.upper)
           other == hex(from_bytes(pure.key), ~pure.upper)
           mixed == [i \in 1..Len(str) |-> IF i % 3 = 0 THEN other[i] ELSE str[i]]
       IN  pure' = [op |-> "done", fn |-> "hex", key |-> pure.key, upper |-> pure.upper,
                    str |-> str, mixed |-> mixed, back |-> from_hex(str),
                    back_mixed |-> from_hex(mixed)]
    /\ UNCHANGED server

\* key is serialized and the data written is deserialized in the same mode
call_serde ==
    /\ pure.op = "call"
    /\ pure.fn = "serde"
    /\ LET data == serialize(from_bytes(pure.key), pure.human)
       IN  pure' = [op |-> "done", fn |-> "serde", key |-> pure.key, human |-> pure.human,
                    data |-> data, back |-> deserialize(data, pure.human)]
    /\ UNCHANGED server

\* SecurityKey::deserialize is given data
call_deserialize ==
    /\ pure.op = "call"
    /\ pure.fn = "deserialize"
    /\ pure' = [op |-> "done", fn |-> "deserialize", data |-> pure.data,
                human |-> pure.human, res |-> deserialize(pure.data, pure.human)]
    /\ UNCHANGED server

\* a call of SRNG::generate_uuid
call_generate_uuid ==
    /\ pure.op = "call"
    /\ pure.fn = "generate_uuid"
    /\ pure' = [op |-> "done", fn |-> "generate_uuid", now |-> pure.now, rng |-> pure.rng,
                res |-> generate_uuid(pure.now, pure.rng).res]
    /\ UNCHANGED server

InitKey == InitServer /\ config_file = None /\ pure \in KeyCalls

NextKey ==
    \/ call_from_hex
    \/ call_from_string
    \/ call_hex
    \/ call_serde
    \/ call_deserialize
    \/ call_generate_uuid

SpecKey == InitKey /\ [][NextKey]_vars

\* ------------------------------------------- one SRNG used by a provisioning tool
\* the number of calls made on the SRNG
MaxCalls == 2

\* the byte values the random answers are made of: no bit set, every bit set
RandomBases == {0, 255}

\* the answers the random source gives to a request of len bytes
RngAnswers(len) ==
    {Random([i \in 1..len |-> b]) : b \in RandomBases} \cup {RngFails}

\* the clock readings
ClockReadings == {At(ms) : ms \in ClockValues} \cup {BeforeEpoch}

\* buffer sizes given to fill: an empty buffer, bytes[6..] of generate_uuid, a
\* key, and the buffer of test_srng_fill
FillLens == {0, RandLen, KeyLen, 256}

\* SRNG::new: no call made yet.  rng lists the answers the random source
\* gave during the last call, uuids the last two UUIDs generated, each with
\* the clock reading of its call
SrngNew ==
    [op |-> "srng", calls |-> 0, fn |-> "new", now |-> <<>>, rng |-> <<>>,
     res |-> Err(""), requested |-> 0, uuids |-> <<>>]

\* the state after a call of fn that read the clock readings now (in a
\* sequence), was answered rng by the random source, and gave ret
Called(fn, now, rng, ret) ==
    pure' = [op |-> "srng", calls |-> pure.calls + 1, fn |-> fn, now |-> now, rng |-> rng,
             res |-> ret.res, requested |-> ret.requested,
             uuids |-> IF fn = "generate_uuid" /\ ret.res.tag = "Ok"
                       THEN (IF pure.uuids = <<>> THEN <<>>
                             ELSE <<pure.uuids[Len(pure.uuids)]>>)
                                \o <<[now |-> now[1], uuid |-> ret.res.key]>>
                       ELSE pure.uuids]

srng_fill ==
    /\ pure.op = "srng"
    /\ pure.calls < MaxCalls
    /\ \E len \in FillLens : \E rng \in RngAnswers(len) :
            Called("fill", <<>>, IF len = 0 THEN <<>> ELSE <<rng>>,
                   [res |-> fill(len, rng), requested |-> len])
    /\ UNCHANGED server

srng_generate_key ==
    /\ pure.op = "srng"
    /\ pure.calls < MaxCalls
    /\ \E rng \in RngAnswers(KeyLen) :
            Called("generate_key", <<>>, <<rng>>,
                   [res |-> generate_key(rng), requested |-> KeyLen])
    /\ UNCHANGED server

srng_generate_uuid ==
    /\ pure.op = "srng"
    /\ pure.calls < MaxCalls
    /\ \E now \in ClockReadings : \E rng \in RngAnswers(RandLen) :
            LET ret == generate_uuid(now, rng)
            IN  Called("generate_uuid", <<now>>,
                       IF ret.requested = 0 THEN <<>> ELSE <<rng>>, ret)
    /\ UNCHANGED server

srng_new_info ==
    /\ pure.op = "srng"
    /\ pure.calls < MaxCalls
    /\ \E rng_key \in RngAnswers(KeyLen) : \E now \in ClockReadings :
       \E rng_uuid \in RngAnswers(RandLen) :
            LET ret == new_info(rng_key, now, rng_uuid)
            IN  Called("new_info",
                       IF rng_key.ok THEN <<now>> ELSE <<>>,
                       IF ret.requested > KeyLen THEN <<rng_key, rng_uuid>> ELSE <<rng_key>>,
                       ret)
    /\ UNCHANGED server

InitSrng == InitServer /\ config_file = None /\ pure = SrngNew

NextSrng ==
    \/ srng_fill
    \/ srng_generate_key
    \/ srng_generate_uuid
    \/ srng_new_info

SpecSrng == InitSrng /\ [][NextSrng]_vars

\* ------------------------------------------------------- the server: startup
\* what is found at device.json: no file, a file that cannot be read, a file
\* that is not a DeviceInfo, or a DeviceInfo with its key and product name
InfoMissing == [found |-> "NotFound", key |-> <<>>, name |-> ""]
InfoUnreadable == [found |-> "PermissionDenied", key |-> <<>>, name |-> ""]
InfoInvalid == [found |-> "InvalidJson", key |-> <<>>, name |-> ""]
InfoLoaded(key, name) == [found |-> "Ok", key |-> key, name |-> name]

\* the messages of DeviceState::new
INFO_NOT_FOUND_MESSAGE ==
    "Device information file device.json not found. You can use create_device_info application to create it."
INFO_LOAD_FAILED_MESSAGE == "Could not load device information file: device.json"

\* no DeviceState exists: nothing holds an authorization key
NoKey == <<>>

\* the DeviceState that new returns
NewState(key, config) ==
    [tag |-> "Ok", msg |-> "", busy_reason |-> "", authorization_key |-> key,
     device_config |-> config]
NewFailed(m) ==
    [tag |-> "Err", msg |-> m, busy_reason |-> "", authorization_key |-> NoKey,
     device_config |-> None]

\* faulty variant of DeviceState::new: a missing device.json gives a state
\* with the all-zero key
DeviceState_new_null_key(info_file, cfg_file) ==
    IF info_file.found = "Ok" \/ info_file.found = "NotFound"
    THEN NewState(IF info_file.found = "Ok" THEN info_file.key ELSE [i \in 1..KeyLen |-> 0],
                  IF cfg_file = Corrupt THEN None ELSE cfg_file)
    ELSE NewFailed(INFO_LOAD_FAILED_MESSAGE)

\* DeviceState::new(sifis_home) when device.json is info_file and config.json
\* is cfg_file
DeviceState_new(info_file, cfg_file) ==
    IF info_file.found = "Ok"
    THEN NewState(info_file.key, IF cfg_file = Corrupt THEN None ELSE cfg_file)
    ELSE IF info_file.found = "NotFound" THEN NewFailed(INFO_NOT_FOUND_MESSAGE)
    ELSE NewFailed(INFO_LOAD_FAILED_MESSAGE)

\* load_device_info of main.rs when device.json is info_file, create_dir_all
\* succeeds or not, a new DeviceInfo is made with the random source answering
\* rng_key to its key, the clock reading now and the random source answering
\* rng_uuid to its UUID, and saving the new file (fs::write) succeeds ("Ok"), fails
\* before the file is created ("NotCreated"), or fails while writing and
\* leaves a file that is not a DeviceInfo ("Truncated"): the result (its
\* message without the error text that follows the colon), the DeviceInfo
\* loaded, and device.json afterwards
load_device_info(info_file, dir_ok, rng_key, now, rng_uuid, save) ==
    LET failed(m) == [tag |-> "Err", msg |-> m, info |-> InfoMissing, file |-> info_file]
        new == new_info(rng_key, now, rng_uuid).res
    IN  IF ~dir_ok THEN failed("Could not create SIFIS-Home path")
        ELSE IF info_file.found = "Ok"
        THEN IF info_file.name = "EDIT ME"
             THEN failed("Please edit the device.json file and change the product name.")
             ELSE [tag |-> "Ok", msg |-> "", info |-> info_file, file |-> info_file]
        ELSE IF info_file.found = "NotFound"
        THEN IF new.tag = "Err" THEN failed("Unexpected error when creating a new DeviceInfo")
             ELSE IF save = "NotCreated" THEN failed("Could not create a new device info")
             ELSE IF save = "Truncated"
             THEN [tag |-> "Err", msg |-> "Could not create a new device info",
                   info |-> InfoMissing, file |-> InfoInvalid]
             ELSE [tag |-> "Err",
                   msg |-> "Please edit the device.json file and change the product name.",
                   info |-> InfoMissing,
                   file |-> InfoLoaded(new.key.authorization_key, "EDIT ME")]
        ELSE failed("Could not load device info")

\* main of main.rs: load_device_info is called; with Err the message is
\* printed and the process ends, with Ok the DeviceState is made of the
\* DeviceInfo, managed by Rocket, and the server is launched
main_start ==
    /\ pure.op = "start"
    /\ pure.phase = "boot"
    /\ \E dir_ok \in BOOLEAN, rng_key \in RngAnswers(KeyLen), now \in ClockReadings,
          rng_uuid \in RngAnswers(RandLen), save \in {"Ok", "NotCreated", "Truncated"} :
        LET r == load_device_info(pure.info_file, dir_ok, rng_key, now, rng_uuid, save)
            state == NewState(r.info.key, IF config_file = Corrupt THEN None ELSE config_file)
        IN  IF r.tag = "Ok"
            THEN /\ pure' = [pure EXCEPT !.phase = "serving",
                                         !.res = [by |-> "DeviceState::new", tag |-> "Ok", msg |-> ""]]
                 /\ busy_reason' = state.busy_reason
                 /\ authorization_key' = state.authorization_key
                 /\ device_config' = state.device_config
            ELSE /\ pure' = [pure EXCEPT !.phase = "exited", !.info_file = r.file,
                                         !.res = [by |-> "load_device_info", tag |-> "Err", msg |-> r.msg]]
                 /\ UNCHANGED <<busy_reason, authorization_key, device_config>>
    /\ UNCHANGED <<write_lock, config_file, th, out, last_set>>

\* the server of test_server_binary and of create_test_state:
\* DeviceState::new(sifis_home) is called; with Ok the state is managed by
\* Rocket and the server is launched, with Err the message is printed and the
\* process ends
server_start ==
    /\ pure.op = "start"
    /\ pure.phase = "boot"
    /\ LET r == DeviceState_new(pure.info_file, config_file)
       IN  /\ pure' = [pure EXCEPT !.phase = IF r.tag = "Ok" THEN "serving" ELSE "exited",
                                   !.res = [by |-> "DeviceState::new", tag |-> r.tag, msg |-> r.msg]]
           /\ busy_reason' = r.busy_reason
           /\ authorization_key' = r.authorization_key
           /\ device_config' = r.device_config
    /\ UNCHANGED <<write_lock, config_file, th, out, last_set>>

\* the launched server handles requests
main_serve ==
    /\ pure.op = "start"
    /\ pure.phase = "serving"
    /\ Next

\* before the start: no state, and device.json missing, unreadable, not a
\* DeviceInfo, or a DeviceInfo with the product name of create_test_state or
\* with the one load_device_info refuses
InitMain ==
    /\ busy_reason = ""
    /\ config_file \in ConfigOpt \cup {Corrupt}
    /\ device_config = None
    /\ write_lock = 0
    /\ authorization_key = NoKey
    /\ th = [p \in Threads |-> IdleRec]
    /\ out = NoOut
    /\ last_set = NoSet
    /\ pure \in {[op |-> "start", phase |-> "boot", info_file |-> f,
                   res |-> [by |-> "", tag |-> "", msg |-> ""]] :
                 f \in {InfoMissing, InfoUnreadable, InfoInvalid}
                       \cup {InfoLoaded(k, n) : k \in ProvisionedKeys,
                                                n \in {"Test Product", "EDIT ME"}}}

\* DeviceState::new does not read the product name: the DeviceInfo files
\* given to it have the name create_test_state writes
InitStart ==
    /\ InitMain
    /\ pure.info_file.name # "EDIT ME"

NextStart ==
    \/ server_start
    \/ main_serve

\* The server that is started with DeviceState::new(sifis_home).
SpecStart == InitStart /\ [][NextStart]_vars

\* The server that is started by the main of main.rs, which reads the
\* product name.
SpecMain == InitMain /\ [][main_start \/ main_serve]_vars

\* ================================================================ properties
\* threads whose BusyGuard is alive
Guards == {p \in Threads : th[p].guard}

\* the kinds of request the server answers, and those that change the device
HandlerKinds == {"status", "get_config", "set_config", "factory_reset", "restart", "shutdown"}
MutatingKinds == {"set_config", "factory_reset", "restart", "shutdown"}

\* the answer o was given to a request whose key check succeeded
Authenticated(o) == o.kind \in HandlerKinds /\ from_request(o.hdr).outcome = "Success"

\* C1: under any interleaving of try_busy calls (with any reason strings) and
\* guard drops, at most one BusyGuard is alive at any time.
C1_AtMostOneGuard == Cardinality(Guards) <= 1

\* C2: try_busy with reason q while the flag is Busy(r) returns Err(r), not q,
\* without waiting (the call is enabled for every idle thread), and leaves the
\* stored reason r in place; no guard is created.
C2_TryBusyWhileBusy ==
    /\ [](busy_reason # "" =>
            \A q \in ApiReasons :
                /\ try_busy(q) = [ok |-> FALSE, err |-> busy_reason, busy |-> busy_reason]
                /\ \A p \in Threads : th[p].pc = "idle" => ENABLED api_try_busy(p, q))
    /\ [][\A p \in Threads, q \in ApiReasons :
            (busy_reason # "" /\ api_try_busy(p, q)) =>
                /\ out'.res = "Err"
                /\ out'.desc = busy_reason
                /\ busy_reason' = busy_reason
                /\ ~th'[p].guard]_vars

C2_Witness ==
    /\ out.kind = "try_busy"
    /\ out.res = "Err"
    /\ out.reason = REASON_RESTART
    /\ out.desc = "Testing BusyGuard"
    /\ busy_reason = "Testing BusyGuard"

\* C3: when a guard is dropped busy() returns "", and a try_busy made while
\* busy() is "" succeeds with any reason and makes busy() return that reason.
C3_DropThenTryBusy ==
    /\ [][\A p \in Threads : api_drop(p) => busy_reason' = ""]_vars
    /\ [][\A p \in Threads, q \in ApiReasons :
            (busy_reason = "" /\ api_try_busy(p, q)) =>
                /\ out'.res = "Ok"
                /\ th'[p].guard
                /\ busy_reason' = q]_vars

C3_Witness ==
    /\ out.kind = "try_busy"
    /\ out.prev = "drop"
    /\ out.res = "Ok"
    /\ out.reason = REASON_RESTART
    /\ busy_reason = REASON_RESTART
    /\ Cardinality(Guards) = 1

\* C4: set_config, factory_reset, restart and shutdown leave the busy flag Free
\* once they have returned, on every exit path taken after try_busy succeeded:
\* a handler that has returned owns no guard, and whenever no handler is
\* between its try_busy and its return the flag is "".
C4_FreeAfterReturn ==
    /\ \A p \in Threads : th[p].pc = "idle" => ~th[p].guard
    /\ Guards = {} => busy_reason = ""

C4_Witness ==
    /\ out.kind = "factory_reset"
    /\ out.code = 500
    /\ out.launched = "not launched"
    /\ Guards = {}
    /\ busy_reason = ""

\* C5: when the persistence step of DeviceState::set_config(new) fails, the
\* call returns an error, the snapshot keeps its previous value (which a
\* following get_config returns) and the write lock is released; the write
\* lock is only ever held by a thread inside set_config.
C5_FailedSetConfig ==
    /\ [](\A p \in Threads : write_lock = p => th[p].pc \in {"w_persist", "w_swap"})
    /\ [](write_lock = 0 => \A p \in Threads : th[p].pc = "idle" => ENABLED api_get_config(p))
    /\ [][\A p \in Threads :
            (th[p].pc = "w_persist" /\ th'[p].pc = "idle") =>
                /\ out'.kind = "api_set_config"
                /\ out'.res = "Err"
                /\ device_config' = device_config
                /\ DeviceState_get_config' = device_config
                /\ write_lock' = 0]_vars

C5_Witness ==
    /\ out.kind = "api_set_config"
    /\ out.res = "Err"
    /\ out.arg \in Configs
    /\ device_config \in Configs
    /\ device_config # out.arg
    /\ write_lock = 0

\* C6: ApiKey::from_request is a total decision on the x-api-key header and the
\* authorization key: no header gives 400 "Missing `x-api-key` header."; a
\* header SecurityKey::from_string does not parse gives 400 "Invalid API key";
\* a parsed key other than the authorization key gives 401; an equal key is
\* granted access (seen in the answer of every request whose body, if it has
\* one, the data guard accepted).
C6_TotalDecision ==
    (out.kind \in HandlerKinds /\ out.data = "") =>
        IF out.hdr = NoHeader
        THEN out.code = 400 /\ out.desc = MISSING_HEADER
        ELSE IF from_string(HeaderValues[out.hdr]).tag # "Ok"
        THEN out.code = 400 /\ out.desc = "Invalid API key"
        ELSE IF from_string(HeaderValues[out.hdr]).key # authorization_key
        THEN out.code = 401 /\ out.desc = unauthorized.desc
        ELSE out.code \notin {401} /\ out.desc \notin {MISSING_HEADER, "Invalid API key"}

\* the answer o was given to an authenticated request that changes the device,
\* while another handler held the busy flag
CommandWhileBusy(o) == Authenticated(o) /\ o.kind \in MutatingKinds /\ o.holder # ""

\* C7 as stated: while a mutating handler holds the busy flag, every other
\* authenticated mutating request of any kind is rejected with 503.
C7_EveryCommandGets503 == CommandWhileBusy(out) => out.code = 503

\* C7: while a mutating handler holds the busy flag, every other authenticated
\* mutating request is rejected: with 400 when it is a factory_reset without
\* the confirmation, with 413, 400, 422 or 500 when it is a set_config whose
\* body the data guard does not make a DeviceConfig of (too large, not JSON,
\* no DeviceConfig, a key that panics), and with 503 otherwise; it writes no
\* config and runs no script: only the one holder of the flag is ever inside
\* set_config or run_script.
C7_BusyExcludesCommands ==
    /\ Cardinality(Guards) <= 1
    /\ \A p \in Threads :
            th[p].pc \in {"w_lock", "w_persist", "w_swap", "script", "ret"} =>
                th[p].guard /\ busy_reason = th[p].reason
    /\ CommandWhileBusy(out) =>
            /\ out.code = IF out.kind = "factory_reset" /\ out.confirm # CONFIRM_MESSAGE
                          THEN 400
                          ELSE IF out.kind = "set_config" /\ out.data = "TooLarge" THEN 413
                          ELSE IF out.kind = "set_config" /\ out.data = "Malformed" THEN 400
                          ELSE IF out.kind = "set_config" /\ out.data = "Unprocessable" THEN 422
                          ELSE IF out.kind = "set_config" /\ out.data = "Panic" THEN 500
                          ELSE 503
            /\ out.data # "" => out.kind = "set_config"
            /\ out.res = ""
            /\ out.launched = ""

C7_Witness ==
    /\ out.kind = "set_config"
    /\ out.code = 503
    /\ out.holder = REASON_RESTART
    /\ \E p \in Threads : th[p].guard /\ th[p].kind = "restart"

\* C8: the description of a 503 is the reason the holder of the flag passed to
\* try_busy, whatever the rejected request's own reason is.
C8_ReasonOfHolder ==
    out.code = 503 =>
        /\ out.holder # ""
        /\ out.desc = out.holder
        /\ out.holder # out.reason => out.desc # out.reason

C8_Witness ==
    /\ out.code = 503
    /\ out.kind = "restart"
    /\ out.reason = REASON_RESTART
    /\ out.desc = REASON_FACTORY_RESET

\* a step of a status or get_config request: a thread enters, goes on with or
\* leaves get_config, or the step only sends the answer of one of the two
ReadStep ==
    \/ \E p \in Threads :
            th'[p] # th[p] /\ (th[p].kind = "get_config" \/ th'[p].kind = "get_config")
    \/ th' = th /\ out' # out /\ out'.kind \in {"status", "get_config"}

\* C9: status and get_config never take the busy flag: they leave it as it is
\* and own no guard; authenticated, they answer 200 or 404, never 503, also
\* while a command holds the flag; get_config waits only for the write lock.
C9_ReadsIgnoreBusy ==
    /\ [](\A p \in Threads : th[p].kind \in {"status", "get_config"} => ~th[p].guard)
    /\ []((Authenticated(out) /\ out.kind = "status") => out.code = 200)
    /\ []((Authenticated(out) /\ out.kind = "get_config") => out.code \in {200, 404})
    /\ [](\A p \in Threads : (th[p].pc = "read" /\ write_lock = 0) => ENABLED get_config_read(p))
    /\ [][ReadStep => busy_reason' = busy_reason]_vars

C9_Witness ==
    /\ out.kind = "get_config"
    /\ out.code = 200
    /\ out.holder = REASON_SHUTDOWN
    /\ busy_reason = REASON_SHUTDOWN

\* C10: from the return of a successful DeviceState::set_config(c) to the next
\* one the snapshot is c and every get_config returns c, so a GET after a
\* successful PUT returns the configuration that was put; GET answers 404
\* exactly when the snapshot is absent, 200 with the snapshot otherwise.
C10_ReadsLastWrite ==
    /\ [](last_set # NoSet => device_config = last_set)
    /\ []((Authenticated(out) /\ out.kind = "get_config" /\ out.seen # NoSet) =>
            IF out.seen = None
            THEN out.code = 404
            ELSE out.code = 200 /\ out.body = out.seen)
    /\ [][\A p \in Threads :
            get_config_read(p) =>
                IF device_config = None
                THEN out'.code = 404
                ELSE out'.code = 200 /\ out'.body = device_config]_vars

C10_Witness ==
    /\ out.kind = "get_config"
    /\ out.code = 200
    /\ out.seen \in Configs
    /\ out.body = out.seen
    /\ device_config = out.seen

\* C11: while a guard is alive the flag changes only by that guard's drop: for
\* as long as a guard is alive the state is Busy with the reason its holder
\* passed, so that every try_busy by another caller fails.
C11_BusyWhileGuardAlive ==
    \A p \in Threads :
        th[p].guard =>
            /\ busy_reason # ""
            /\ busy_reason = th[p].reason
            /\ \A q \in ApiReasons : ~try_busy(q).ok

\* the decision ApiKey::from_request takes on each header when the key is the
\* one DeviceState was constructed with
DecisionAtConstruction ==
    [h \in Headers |->
        IF h = NoHeader THEN "Failure"
        ELSE IF ParsedHeaders[h].tag = "Panic" THEN "Panic"
        ELSE IF ParsedHeaders[h].tag = "Ok" /\ ParsedHeaders[h].key \in ProvisionedKeys
        THEN "Success" ELSE "Failure"]

\* C12: no request changes device_info().authorization_key(): it is the key
\* DeviceState was constructed with, and the decision on every x-api-key value
\* is the one taken at construction.
C12_KeyFixed ==
    /\ authorization_key \in ProvisionedKeys
    /\ \A h \in Headers : from_request(h).outcome = DecisionAtConstruction[h]

C12_Witness ==
    /\ out.kind = "factory_reset"
    /\ out.code = 200
    /\ last_set = None
    /\ authorization_key = TEST_AUTH_KEY
    /\ from_request(1).outcome = "Success"

\* the string s holds a byte that is not a hexadecimal digit 0-9, a-f, A-F
HasNonHex(s) == \E i \in 1..Len(s) : HexDigit(s[i]) < 0

\* C13: from_hex fails with the wrong-length error for every string whose
\* length is not 64, and with an invalid-digit error for every string of
\* length 64 that holds a character that is not a hexadecimal digit.
C13_FromHexErrors ==
    (pure.op = "done" /\ pure.fn = "from_hex") =>
        /\ Len(pure.str) # HexLen => pure.res = Err(WRONG_LENGTH_ERROR)
        /\ (Len(pure.str) = HexLen /\ HasNonHex(pure.str)) =>
                pure.res = Err(INVALID_DIGIT_ERROR)

\* the character hex writes for the half-byte n: a digit or a letter
DigitChar(n, upper) == IF n < 10 THEN 48 + n ELSE IF upper THEN 55 + n ELSE 87 + n

\* C14: for every 32-byte value b and both values of upper, hex renders 64
\* characters, byte i of the key in characters 2i and 2i+1 with the
\* most-significant half first, from_hex of the rendering is from_bytes(b)
\* again, and from_hex accepts the rendering in mixed case.
C14_HexRoundTrip ==
    (pure.op = "done" /\ pure.fn = "hex") =>
        /\ Len(pure.str) = HexLen
        /\ \A i \in 0..(KeyLen - 1) :
                /\ pure.str[2 * i + 1] = DigitChar(pure.key[i + 1] \div 16, pure.upper)
                /\ pure.str[2 * i + 2] = DigitChar(pure.key[i + 1] % 16, pure.upper)
        /\ pure.back = Ok(from_bytes(pure.key))
        /\ pure.back_mixed = Ok(from_bytes(pure.key))

C14_Witness ==
    /\ pure.op = "done"
    /\ pure.fn = "hex"
    /\ pure.upper
    /\ pure.key = [i \in 1..KeyLen |-> (i + 170) % 256]
    /\ pure.mixed # pure.str
    /\ pure.back = Ok(pure.key)

\* the key a string of hex digits stands for
HexKey(s) == [i \in 1..(Len(s) \div 2) |-> 16 * HexDigit(s[2 * i - 1]) + HexDigit(s[2 * i])]

\* C15: from_string returns the hex interpretation for every 64-character
\* string of hex digits; for any other string the base64 interpretation if the
\* string decodes to exactly 32 bytes; otherwise the one generic error.
C15_FromStringDecision ==
    (pure.op = "done" /\ pure.fn = "from_string") =>
        LET decoded == base64_decode(pure.str)
        IN  pure.res =
                IF Len(pure.str) = HexLen /\ ~HasNonHex(pure.str)
                THEN Ok(HexKey(pure.str))
                ELSE IF decoded # <<-1>> /\ Len(decoded) = KeyLen
                THEN Ok(decoded)
                ELSE Err(NOT_SUITABLE_ERROR)

\* the number of characters of the UTF-8 string s: its bytes that do not
\* continue a character
CharCount(s) == Cardinality({i \in 1..Len(s) : s[i] < 128 \/ s[i] > 191})

\* C16: a human-readable serializer writes the 64-character lower-case hex
\* string and a binary one the 32 raw bytes; deserializing what was serialized
\* gives the key back in each mode; a human-readable string that is not 64
\* characters long and a byte slice that is not 32 bytes long are rejected
\* with "key data length is incorrect".
C16_SerdeMirror ==
    /\ (pure.op = "done" /\ pure.fn = "serde") =>
            /\ pure.human =>
                    /\ pure.data.type = "str"
                    /\ CharCount(pure.data.v) = HexLen
                    /\ \A i \in 0..(KeyLen - 1) :
                            /\ pure.data.v[2 * i + 1] = DigitChar(pure.key[i + 1] \div 16, FALSE)
                            /\ pure.data.v[2 * i + 2] = DigitChar(pure.key[i + 1] % 16, FALSE)
            /\ ~pure.human => pure.data = SerBytes(pure.key)
            /\ pure.back = Ok(from_bytes(pure.key))
    /\ (pure.op = "done" /\ pure.fn = "deserialize") =>
            /\ (pure.human /\ pure.data.type = "str" /\ CharCount(pure.data.v) # HexLen) =>
                    /\ pure.res.tag = "Err"
                    /\ pure.res.msg = DE_ERROR_PREFIX \o WRONG_LENGTH_ERROR
            /\ (~pure.human /\ pure.data.type = "bytes" /\ Len(pure.data.v) # KeyLen) =>
                    /\ pure.res.tag = "Err"
                    /\ pure.res.msg = DE_ERROR_PREFIX \o WRONG_LENGTH_ERROR

RECURSIVE Pow2(_)
Pow2(n) == IF n = 0 THEN 1 ELSE 2 * Pow2(n - 1)

\* bit n of the u128 x, bit 0 being the least significant
Bit(x, n) == (x[U128Groups - (n \div 16)] \div Pow2(n % 16)) % 2

\* bit n of the 80-bit number the random bytes are in big-endian order
RandBit(rand, n) == (rand[RandLen - (n \div 8)] \div Pow2(n % 8)) % 2

\* the places of the version and variant bits, and those of the random bits
VersionBits == 76..79
VariantBits == 62..63
RandomBits == (0..79) \ (VersionBits \cup VariantBits)

\* C17: for every timestamp and every 10 random bytes, bits 79..76 of the
\* UUID are 0111, bits 63..62 are 10, and every other bit of the low 80 bits
\* is the bit of the random bytes.
C17_VersionVariantBits ==
    (pure.op = "done" /\ pure.fn = "generate_uuid") =>
        /\ pure.res.tag = "Ok"
        /\ <<Bit(pure.res.key, 79), Bit(pure.res.key, 78),
             Bit(pure.res.key, 77), Bit(pure.res.key, 76)>> = <<0, 1, 1, 1>>
        /\ <<Bit(pure.res.key, 63), Bit(pure.res.key, 62)>> = <<1, 0>>
        /\ \A n \in RandomBits : Bit(pure.res.key, n) = RandBit(pure.rng.bytes, n)

C17_Witness ==
    /\ pure.op = "done"
    /\ pure.fn = "generate_uuid"
    /\ pure.now = At(MIRI_TIME)
    /\ pure.rng = Random([i \in 1..RandLen |-> 255])
    /\ pure.res = Ok(<<341, 21845, 21845, 32767, 49151, 65535, 65535, 65535>>)

\* x < 2^48 and x <= y on u128
Below48(x) == \A i \in 1..(U128Groups - 3) : x[i] = 0
U128Le(x, y) ==
    \/ x = y
    \/ \E i \in 1..U128Groups : x[i] < y[i] /\ \A j \in 1..(i - 1) : x[j] = y[j]

\* C18: the top 48 bits of a generated UUID are the millisecond timestamp read
\* for that call (its 48 low bits), whatever the random bytes are; so for
\* calls on one SRNG whose clock readings are below 2^48 and do not decrease,
\* uuid >> 80 does not decrease, and two UUIDs of the same millisecond differ
\* only in their 74 random bits.
C18_TimestampField ==
    pure.op = "srng" =>
        /\ \A k \in 1..Len(pure.uuids) :
                /\ \A n \in 0..47 : Bit(pure.uuids[k].uuid, 80 + n) = Bit(pure.uuids[k].now.ms, n)
                /\ Below48(pure.uuids[k].now.ms) =>
                        u128_shr80(pure.uuids[k].uuid) = pure.uuids[k].now.ms
        /\ Len(pure.uuids) = 2 =>
                /\ ( /\ Below48(pure.uuids[1].now.ms)
                     /\ Below48(pure.uuids[2].now.ms)
                     /\ U128Le(pure.uuids[1].now.ms, pure.uuids[2].now.ms) ) =>
                        U128Le(u128_shr80(pure.uuids[1].uuid), u128_shr80(pure.uuids[2].uuid))
                /\ pure.uuids[1].now = pure.uuids[2].now =>
                        \A n \in 0..127 :
                            Bit(pure.uuids[1].uuid, n) # Bit(pure.uuids[2].uuid, n) =>
                                n \in RandomBits

C18_Witness ==
    /\ pure.op = "srng"
    /\ Len(pure.uuids) = 2
    /\ pure.uuids[1].now = At(Millis(0, 400, 65535, 65535))
    /\ pure.uuids[2].now = At(Millis(0, 401, 0, 0))
    /\ pure.uuids[1].uuid # pure.uuids[2].uuid
    /\ u128_shr80(pure.uuids[2].uuid) = Millis(0, 401, 0, 0)

\* C19: when the random source fails during fill, generate_key, generate_uuid
\* or new_info, the call returns the RNG error and no buffer, key, UUID or
\* DeviceInfo.
C19_RngFailure ==
    (pure.op = "srng" /\ \E i \in 1..Len(pure.rng) : ~pure.rng[i].ok) =>
        /\ pure.fn \in {"fill", "generate_key", "generate_uuid", "new_info"}
        /\ pure.res.tag = "Err"
        /\ pure.res.msg = RNG_ERROR
        /\ pure.res \in {Err(RNG_ERROR), FillFailed(RNG_ERROR)}

C19_Witness ==
    /\ pure.op = "srng"
    /\ pure.fn = "new_info"
    /\ Len(pure.rng) = 2
    /\ pure.rng[1].ok
    /\ ~pure.rng[2].ok
    /\ pure.res = Err(RNG_ERROR)

\* C20: when the clock reads a time before the Unix epoch, generate_uuid
\* returns the time error and no UUID, and has requested no random bytes.
C20_ClockBeforeEpoch ==
    (pure.op = "srng" /\ pure.fn = "generate_uuid" /\ pure.now[1].before_epoch) =>
        /\ pure.res = Err(TIME_ERROR)
        /\ pure.requested = 0
        /\ pure.rng = <<>>

C20_Witness ==
    /\ pure.op = "srng"
    /\ pure.fn = "generate_uuid"
    /\ pure.now = <<BeforeEpoch>>
    /\ pure.res = Err(TIME_ERROR)
    /\ pure.calls = 2
    /\ Len(pure.uuids) = 1

\* C21: when device.json cannot be loaded DeviceState::new returns an error
\* (the "not found ... create_device_info" message when the file is missing)
\* and no state; a start that loaded no identity ends without a state and
\* without serving, and a request is authorized only with the key of the
\* identity that was loaded.
C21_NoStateWithoutIdentity ==
    pure.op = "start" =>
        /\ (pure.res.by = "DeviceState::new" /\ pure.info_file.found # "Ok") =>
                /\ pure.res.tag = "Err"
                /\ pure.info_file.found = "NotFound" => pure.res.msg = INFO_NOT_FOUND_MESSAGE
        /\ (pure.phase # "boot" /\ pure.res.tag # "Ok") =>
                /\ pure.phase = "exited"
                /\ authorization_key = NoKey
        /\ pure.phase # "serving" =>
                /\ out = NoOut
                /\ \A p \in Threads : th[p] = IdleRec
        /\ \A h \in Headers :
                from_request(h).outcome = "Success" =>
                    /\ pure.phase = "serving"
                    /\ pure.info_file.found = "Ok"
                    /\ authorization_key = pure.info_file.key

C21_Witness ==
    /\ pure.op = "start"
    /\ pure.phase = "exited"
    /\ pure.info_file = InfoMissing
    /\ pure.res = [by |-> "DeviceState::new", tag |-> "Err", msg |-> INFO_NOT_FOUND_MESSAGE]
    /\ out = NoOut

\* the answer o was given to an authenticated factory_reset whose confirm
\* parameter is missing or is not the message
UnconfirmedReset(o) ==
    Authenticated(o) /\ o.kind = "factory_reset" /\ o.confirm # CONFIRM_MESSAGE

\* C22: an authenticated factory_reset without the exact confirm message is
\* answered 400, also while the device is busy, and the step that answers it
\* changes neither the configuration (in memory and persisted) nor the busy
\* flag, creates no guard and runs no script.
C22_UnconfirmedResetNoEffect ==
    /\ [](UnconfirmedReset(out) =>
            /\ out.code = 400
            /\ out.desc = CONFIRM_ERROR
            /\ out.launched = "")
    /\ [][(out' # out /\ UnconfirmedReset(out')) =>
            UNCHANGED <<busy_reason, device_config, config_file, write_lock, th, last_set>>]_vars

C22_Witness ==
    /\ UnconfirmedReset(out)
    /\ out.confirm = "<absent>"
    /\ out.code = 400
    /\ out.holder = REASON_SET_CONFIG
    /\ busy_reason = REASON_SET_CONFIG

\* the answer o was given to a request to a mutating endpoint whose x-api-key
\* was missing, malformed or wrong
Unauthenticated(o) ==
    o.kind \in MutatingKinds /\ from_request(o.hdr).outcome # "Success"

\* C23: a request to a mutating endpoint whose x-api-key is missing, malformed
\* or wrong is answered 400 or 401, never 503, whether the device is free or
\* busy, and the step that answers it changes neither the busy flag nor the
\* configuration (in memory and persisted), creates no guard and runs no
\* script.
C23_UnauthenticatedNoEffect ==
    /\ [](Unauthenticated(out) =>
            /\ out.code \in {400, 401}
            /\ out.launched = ""
            /\ out.reason = "")
    /\ [][(out' # out /\ Unauthenticated(out')) =>
            UNCHANGED <<busy_reason, device_config, config_file, write_lock, th, last_set>>]_vars

\* C24: whenever the config write lock is free, the in-memory snapshot equals
\* the persisted record, after any interleaving of set_config calls, failed
\* ones included.  The record is Corrupt only where the claim's assumptions
\* are broken: config.json was not loadable at startup, or a failed save left
\* it half written; so the statement is made for every state whose record is
\* not Corrupt.
C24_SnapshotEqualsRecord ==
    (write_lock = 0 /\ config_file # Corrupt) => device_config = config_file

C24_Witness ==
    /\ write_lock = 0
    /\ out.kind = "api_set_config"
    /\ out.res = "Err"
    /\ last_set \in Configs
    /\ device_config = last_set
    /\ config_file = last_set
    /\ out.arg # last_set
    /\ \E q \in Threads : th[q].pc = "w_lock"

\* the config write lock is taken only by a worker that holds the busy flag,
\* the busy flag is never asked for by a worker that holds the lock, and some
\* worker that handles a request can always go on
LockOrder ==
    /\ [](\A p \in Threads : th[p].pc \in {"w_lock", "w_persist", "w_swap"} => th[p].guard)
    /\ [](\A p \in Threads : write_lock = p => th[p].pc \in {"w_persist", "w_swap"})
    /\ []((\E p \in Threads : th[p].pc # "idle") =>
            \E p \in Threads : ENABLED Continue(p) \/ ENABLED Acquire(p))

Resetting(p) == th[p].kind = "factory_reset" /\ th[p].guard

\* C26: factory_reset deletes the configuration before factory_reset.sh runs
\* and never restores it. When set_config(None) fails the step leaves the
\* configuration as it was, the script is not run and the answer is 500; when
\* it succeeds the configuration is absent (snapshot and file, so get_config
\* answers 404) while the script runs and when the handler returns, whether
\* the script was launched (200) or not (500).
C26_ResetDeletesFirst ==
    /\ [](\A p \in Threads : (Resetting(p) /\ th[p].pc \in {"script", "ret"}) =>
            IF th[p].res = "Ok"
            THEN /\ DeviceState_get_config = None
                 /\ config_file = None
                 /\ th[p].pc = "ret" =>
                        \/ th[p].code = 200 /\ run_script(th[p].launched) = "Ok"
                        \/ th[p].code = 500 /\ run_script(th[p].launched) = "Err"
            ELSE /\ th[p].pc = "ret"
                 /\ th[p].code = 500
                 /\ th[p].launched = "")
    /\ [][\A p \in Threads :
            (Resetting(p) /\ th[p].pc = "w_persist" /\ th'[p].res = "Err") =>
                UNCHANGED <<device_config, config_file>>]_vars
    /\ [][\A p \in Threads :
            (Resetting(p) /\ th[p].pc = "ret" /\ th'[p].pc = "idle") =>
                /\ UNCHANGED <<device_config, config_file>>
                /\ out'.kind = "factory_reset"
                /\ out'.code = th[p].code
                /\ out'.launched = th[p].launched]_vars

C26_Witness ==
    /\ out.kind = "set_config" /\ out.code = 200 /\ out.arg \in Configs
    /\ \E p \in Threads :
          /\ Resetting(p)
          /\ th[p].pc = "ret"
          /\ th[p].res = "Ok"
          /\ th[p].launched = "not launched"
          /\ th[p].code = 500
    /\ device_config = None
    /\ config_file = None
    /\ last_set = None

\* the threads whose BusyGuard is alive
LiveGuards == {p \in Threads : th[p].guard}

\* C27: with set_busy and clear_busy reached through BusyGuard only and with
\* non-empty reasons, at most one guard is alive, busy() is the reason of the
\* live guard exactly while it is alive and "" exactly while none is alive.
C27_BusyIsLiveGuardReason ==
    /\ Cardinality(LiveGuards) <= 1
    /\ \A p \in LiveGuards : busy = th[p].reason /\ busy # ""
    /\ LiveGuards = {} <=> busy = ""

C27_Witness ==
    /\ \E p \in LiveGuards : th[p].reason = "Testing BusyGuard"
    /\ busy = "Testing BusyGuard"
    /\ out.kind = "try_busy" /\ out.reason = REASON_RESTART /\ out.res = "Err"
    /\ out.desc = "Testing BusyGuard"

\* C28: SecurityKey::from_hex, SecurityKey::from_string and the human-readable
\* deserialization return Ok or Err for every input and never panic, also for
\* strings of 64 bytes that hold multi-byte characters at any offset.
C28_KeyParsingTotal ==
    (/\ pure.op = "done"
     /\ \/ pure.fn \in {"from_hex", "from_string"}
        \/ pure.fn = "deserialize" /\ pure.human) =>
        pure.res.tag \in {"Ok", "Err"}

\* C29: run_script reports an error only when the script cannot be located or
\* launched, whatever the exit status: an authenticated restart or shutdown
\* that ran run_script answers 200 with its message when the script was
\* launched, also when it exited non-zero, and 500 when launching failed; it
\* answers 500 in no other case.
C29_ExitStatusIgnored ==
    (Authenticated(out) /\ out.kind \in {"restart", "shutdown"}) =>
        /\ out.launched \in {"exit 0", "exit 1"} =>
                /\ out.code = 200
                /\ out.desc = IF out.kind = "restart"
                              THEN "System will now restart."
                              ELSE "System will now power off."
        /\ out.launched = "not launched" => out.code = 500
        /\ out.code = 500 => out.launched = "not launched"
        /\ out.code = 200 => out.launched \in {"exit 0", "exit 1"}

C29_Witness ==
    /\ Authenticated(out)
    /\ out.kind = "shutdown"
    /\ out.launched = "exit 1"
    /\ out.code = 200
    /\ out.desc = "System will now power off."

\* C30: for a string of 64 bytes from_string succeeds exactly when from_hex
\* succeeds, with the same key, because from_base64 accepts no string of that
\* length; and a string that from_string accepts through from_base64 has 44
\* characters.
C30_HexOrBase64ByLength ==
    (pure.op = "done" /\ pure.fn = "from_string") =>
        /\ Len(pure.str) = HexLen =>
                /\ pure.res.tag = "Ok" <=> from_hex(pure.str).tag = "Ok"
                /\ pure.res.tag = "Ok" => pure.res = from_hex(pure.str)
                /\ from_base64(pure.str).tag # "Ok"
        /\ (pure.res.tag = "Ok" /\ pure.res = from_base64(pure.str)) =>
                Len(pure.str) = Len(TEST_KEY_BASE64)

C30_Witness ==
    /\ pure.op = "done"
    /\ pure.fn = "from_string"
    /\ Len(pure.str) = HexLen
    /\ from_hex(pure.str) = Err(INVALID_DIGIT_ERROR)
    /\ base64_decode(pure.str) # <<-1>>
    /\ from_base64(pure.str) = Err(WRONG_LENGTH_ERROR)
    /\ pure.res = Err(NOT_SUITABLE_ERROR)
====
